---- MODULE Spec2Model ----
(***************************************************************************)
(* vibebox: provider selection, the service session registry, the image    *)
(* artifact store and the apple-vm exec lifecycle, as state machines.      *)
(*                                                                         *)
(* The module holds several specifications over one set of variables:      *)
(*   SpecSelect   backend.Select and the service calls built on it         *)
(*   SpecSession  Service.StartSession / ExecInSession / StopSession /     *)
(*                GetSession run by concurrent callers                     *)
(*   SpecImage    image.DownloadAndVerify, Manager.EnsurePrepared and      *)
(*                Service.Initialize over the cache files and the lock     *)
(*   SpecVM       one apple-vm Exec or interactive Start, with a clock     *)
(*   SpecFrame, SpecCwd, SpecOffCwd, SpecOffEnv, SpecNormalize, SpecConfig,*)
(*   SpecCli      functions applied to inputs drawn from bounded sets      *)
(*   SpecLock     processes sharing images.lock.yaml                       *)
(*   SpecPrepare  Backend.Prepare over the project's instance disk         *)
(*   SpecProgress App.prepareImage, its goroutine and its consumer         *)
(*   SpecExec     Service.Exec, one action per stage                       *)
(*   SpecSessionExec  ExecInSession over the defaults of two sessions      *)
(*   SpecLifecycles   concurrent VM lifecycles on one instance disk        *)
(* Each specification leaves the variables of the others at their initial  *)
(* values.                                                                 *)
(***************************************************************************)
EXTENDS Integers, Sequences, FiniteSets, TLC

VARIABLES
    goos,        \* runtime.GOOS of the build
    selCall,     \* the last selection-level call and what it returned
    sessions,    \* Service.sessions: session id -> managedSession
    mu,          \* Service.mu: [writer, readers]
    thr,         \* per caller: the call it is in, its position and locals
    hist,        \* history: backend calls per session, returned stops
    artifact,    \* content of the artifact file, or Absent
    raw,         \* content of base.raw, or Absent
    lock,        \* images.lock.yaml: key -> [artifact, raw]
    projCfg,     \* the project config file: Absent or the saved provider
    imgEnv,      \* the origin server's artifact and the descriptor digest
    imgCall,     \* the last image-store call and what it returned
    vm,          \* the vmRuntime of the call: VM state, console, sent lines
    call,        \* the apple-vm call: operation, position, result
    clock,       \* time and the deadlines that are armed
    fnArgs,      \* the arguments a function or a run was given
    fnRet,       \* what it returned, or the state of the run
    lockFile,    \* images.lock.yaml as the processes sharing it see it
    procs,       \* per process: its position in updateLock and its locals
    disk         \* the project's instance disk and what Prepare did to it

selVars  == <<goos, selCall>>
sessVars == <<sessions, mu, thr, hist>>
imgVars  == <<artifact, raw, lock, projCfg, imgEnv, imgCall>>
vmVars   == <<vm, call, clock>>
fnVars   == <<fnArgs, fnRet>>
lockVars == <<lockFile, procs>>
prepVars == <<disk>>
vars     == <<goos, selCall, sessions, mu, thr, hist,
              artifact, raw, lock, projCfg, imgEnv, imgCall, vm, call, clock,
              fnArgs, fnRet, lockFile, procs, disk>>

(***************************************************************************)
(* Providers and backend selection                                         *)
(***************************************************************************)

ProviderOff     == "off"
ProviderAuto    == "auto"
ProviderAppleVM == "apple-vm"
ProviderMacOS   == "macos"
ProviderDocker  == "docker"

\* The provider strings a caller may pass: the five known values, the empty
\* string and one unknown value.
ProviderInputs ==
    {"", ProviderOff, ProviderAuto, ProviderAppleVM, ProviderMacOS,
     ProviderDocker, "bogus"}

BackendNames == {"off", "apple-vm", "docker"}

GoosValues == {"darwin", "linux"}

\* config.NormalizeProvider
NormalizeProviderBad(p) == IF p = ProviderMacOS THEN ProviderDocker ELSE p
NormalizeProvider(p) == IF p = ProviderMacOS THEN ProviderAppleVM ELSE p

\* Provider.Validate: TRUE when it returns nil
ProviderValid(p) ==
    p \in {ProviderOff, ProviderAuto, ProviderAppleVM, ProviderDocker}

\* vibebox.normalizeProvider: [ok, p]
normalizeProviderBad(p) ==
    IF p = "" THEN [ok |-> TRUE, p |-> ProviderAuto]
    ELSE IF p \in {ProviderOff, ProviderAuto, ProviderAppleVM, ProviderDocker,
                   ProviderMacOS}
         THEN [ok |-> TRUE, p |-> p]
    ELSE [ok |-> FALSE, p |-> ""]
normalizeProvider(p) ==
    IF p = "" THEN [ok |-> TRUE, p |-> ProviderAuto]
    ELSE IF p \in {ProviderOff, ProviderAuto, ProviderAppleVM, ProviderDocker}
         THEN [ok |-> TRUE, p |-> p]
    ELSE IF p = ProviderMacOS THEN [ok |-> TRUE, p |-> ProviderAppleVM]
    ELSE [ok |-> FALSE, p |-> ""]

\* vibebox.toInternalProvider
toInternalProvider(p) == IF p = "" THEN ProviderAuto ELSE NormalizeProvider(p)

\* backend.ProbeResult, without the hints: a backend is available, or
\* unavailable for one of two reasons.
ProbeResults ==
    {[available |-> TRUE, reason |-> ""]} \cup
    {[available |-> FALSE, reason |-> r] : r \in {"r1", "r2"}}

\* The results of one round of the three probes.
ProbeRounds == [BackendNames -> ProbeResults]

NoDiag == [n \in {} |-> [available |-> FALSE, reason |-> ""]]

NoError == [kind |-> "nil", target |-> "", appleReason |-> "", dockerReason |-> ""]

\* Selection{} : the zero value returned with every error
ZeroSelection ==
    [backend |-> "", provider |-> "", diag |-> NoDiag,
     wasFallback |-> FALSE, fallbackFrom |-> ""]

\* fail(target) of Select
SelectFail(target, diag) ==
    [sel |-> ZeroSelection,
     err |-> [kind |-> "unavailable", target |-> target,
              appleReason |-> "", dockerReason |-> ""]]

SelectOk(name, diag, fb, from) ==
    [sel |-> [backend |-> name, provider |-> name, diag |-> diag,
              wasFallback |-> fb, fallbackFrom |-> from],
     err |-> NoError]

\* The explicit arms of the switch in Select.
SelectExplicitBad(p, diag) ==
    IF diag[p].available THEN SelectOk(p, diag, FALSE, "")
    ELSE IF p = ProviderAppleVM /\ diag["docker"].available
         THEN SelectOk("docker", diag, FALSE, "")
    ELSE SelectFail(p, diag)
SelectExplicit(p, diag) ==
    IF ~diag[p].available THEN SelectFail(p, diag)
    ELSE SelectOk(p, diag, FALSE, "")

\* The auto arm of the switch in Select.
SelectAutoBad(os, diag) ==
    IF os = "darwin" /\ diag["apple-vm"].available
    THEN SelectOk("apple-vm", diag, FALSE, "")
    ELSE IF diag["docker"].available
         THEN SelectOk("docker", diag, os = "darwin", "apple-vm")
    ELSE IF diag["off"].available
         THEN SelectOk("off", diag, TRUE, "apple-vm")
    ELSE [sel |-> ZeroSelection,
          err |-> [kind |-> "auto-failed", target |-> "",
                   appleReason |-> diag["apple-vm"].reason,
                   dockerReason |-> diag["docker"].reason]]
SelectAuto(os, diag) ==
    IF os = "darwin" /\ diag["apple-vm"].available
    THEN SelectOk("apple-vm", diag, FALSE, "")
    ELSE IF diag["docker"].available
         THEN SelectOk("docker", diag, os = "darwin", "apple-vm")
    ELSE [sel |-> ZeroSelection,
          err |-> [kind |-> "auto-failed", target |-> "",
                   appleReason |-> diag["apple-vm"].reason,
                   dockerReason |-> diag["docker"].reason]]

\* backend.Select(ctx, provider, off, appleVM, docker); diag is the result of
\* the three probes it runs, os is runtime.GOOS.
Select(provider, os, diag) ==
    LET p == NormalizeProvider(provider) IN
    IF ~ProviderValid(p)
    THEN [sel |-> ZeroSelection,
          err |-> [kind |-> "invalid", target |-> p,
                   appleReason |-> "", dockerReason |-> ""]]
    ELSE IF p = ProviderAuto THEN SelectAuto(os, diag)
    ELSE SelectExplicit(p, diag)


\* The provider a service call selects with: the override when given, else
\* the provider of the project config (Service.Exec lines 261-267).
EffectiveProvider(override, cfgProvider) ==
    IF override # "" THEN normalizeProvider(override)
    ELSE [ok |-> TRUE, p |-> cfgProvider]

\* The providers a validated project config can hold.
ConfigProviders == {ProviderOff, ProviderAuto, ProviderAppleVM, ProviderDocker}

NoCall ==
    [op |-> "none", requested |-> "", cfg |-> "", d1 |-> NoDiag,
     ok |-> FALSE, err |-> NoError, selected |-> "", backend |-> "",
     wasFallback |-> FALSE, fallbackFrom |-> "", diagnostics |-> NoDiag,
     events |-> <<>>]

\* A service call that failed: the zero result and the error.
FailedCall(op, override, cfgProvider, diag, err, events) ==
    [op |-> op, requested |-> override, cfg |-> cfgProvider, d1 |-> diag,
     ok |-> FALSE, err |-> err, selected |-> "", backend |-> "",
     wasFallback |-> FALSE, fallbackFrom |-> "", diagnostics |-> NoDiag,
     events |-> events]

StageError(kind) ==
    [kind |-> kind, target |-> "", appleReason |-> "", dockerReason |-> ""]

\* Service.Exec / Service.Start / Service.StartSession after the project has
\* been resolved: select, Prepare on the selected backend, then the backend
\* operation. prepOk and runOk are the outcomes of Prepare and of the
\* backend operation.
ServiceRun(op, override, cfgProvider, os, diag, prepOk, runOk) ==
    LET eff == EffectiveProvider(override, cfgProvider)
        s   == Select(toInternalProvider(eff.p), os, diag)
        pre == IF op = "Start" /\ s.sel.wasFallback
               THEN <<"fallback", "prepare">> ELSE <<"prepare">>
    IN  IF ~eff.ok
        THEN FailedCall(op, override, cfgProvider, NoDiag, StageError("invalid"), <<>>)
        ELSE IF s.err.kind # "nil"
        THEN FailedCall(op, override, cfgProvider, diag, s.err, <<>>)
        ELSE IF ~prepOk
        THEN FailedCall(op, override, cfgProvider, diag, StageError("prepare"), pre)
        ELSE IF ~runOk
        THEN FailedCall(op, override, cfgProvider, diag, StageError("backend"),
                        pre \o <<"running">>)
        ELSE [op |-> op, requested |-> override, cfg |-> cfgProvider, d1 |-> diag,
              ok |-> TRUE, err |-> NoError,
              selected |-> s.sel.provider, backend |-> s.sel.backend,
              wasFallback |-> IF op = "Start" THEN s.sel.wasFallback ELSE FALSE,
              fallbackFrom |-> IF op = "Start" THEN s.sel.fallbackFrom ELSE "",
              diagnostics |-> s.sel.diag,
              events |-> pre \o <<"running", "completed">>]

\* Service.Probe: d1 is the probe round Select runs, d2 the round Probe runs
\* itself for the diagnostics of its result.
ServiceProbeResult(provider, os, d1, d2) ==
    LET n == normalizeProvider(provider)
        s == Select(toInternalProvider(n.p), os, d1)
    IN  IF ~n.ok
        THEN FailedCall("Probe", provider, "", NoDiag, StageError("invalid"), <<>>)
        ELSE IF s.err.kind # "nil"
        THEN [FailedCall("Probe", provider, "", d1, s.err, <<>>)
                 EXCEPT !.diagnostics = d2]
        ELSE [op |-> "Probe", requested |-> provider, cfg |-> "", d1 |-> d1,
              ok |-> TRUE, err |-> NoError,
              selected |-> s.sel.provider, backend |-> s.sel.backend,
              wasFallback |-> s.sel.wasFallback,
              fallbackFrom |-> s.sel.fallbackFrom,
              diagnostics |-> d2, events |-> <<>>]

\* backend.Select called directly with fake backends, as selector_test does.
CallSelect ==
    /\ selCall = NoCall
    /\ UNCHANGED <<goos, sessVars, imgVars, vmVars, fnVars, lockVars, prepVars>>
    /\ \E p \in ProviderInputs, d \in ProbeRounds :
        LET s == Select(p, goos, d) IN
        selCall' = [op |-> "Select", requested |-> p, cfg |-> "", d1 |-> d,
                    ok |-> s.err.kind = "nil", err |-> s.err,
                    selected |-> s.sel.provider, backend |-> s.sel.backend,
                    wasFallback |-> s.sel.wasFallback,
                    fallbackFrom |-> s.sel.fallbackFrom,
                    diagnostics |-> s.sel.diag, events |-> <<>>]

CallProbe ==
    /\ selCall = NoCall
    /\ UNCHANGED <<goos, sessVars, imgVars, vmVars, fnVars, lockVars, prepVars>>
    /\ \E p \in ProviderInputs, d \in ProbeRounds, d2 \in ProbeRounds :
        selCall' = ServiceProbeResult(p, goos, d, d2)

CallExec ==
    /\ selCall = NoCall
    /\ UNCHANGED <<goos, sessVars, imgVars, vmVars, fnVars, lockVars, prepVars>>
    /\ \E p \in ProviderInputs, c \in ConfigProviders, d \in ProbeRounds,
       prepOk \in BOOLEAN, runOk \in BOOLEAN :
        selCall' = ServiceRun("Exec", p, c, goos, d, prepOk, runOk)

CallStart ==
    /\ selCall = NoCall
    /\ UNCHANGED <<goos, sessVars, imgVars, vmVars, fnVars, lockVars, prepVars>>
    /\ \E p \in ProviderInputs, c \in ConfigProviders, d \in ProbeRounds,
       prepOk \in BOOLEAN, runOk \in BOOLEAN :
        selCall' = ServiceRun("Start", p, c, goos, d, prepOk, runOk)

CallStartSession ==
    /\ selCall = NoCall
    /\ UNCHANGED <<goos, sessVars, imgVars, vmVars, fnVars, lockVars, prepVars>>
    /\ \E p \in ProviderInputs, c \in ConfigProviders, d \in ProbeRounds,
       prepOk \in BOOLEAN, runOk \in BOOLEAN :
        selCall' = ServiceRun("StartSession", p, c, goos, d, prepOk, runOk)


\* The caller has taken the result of the call.
CallReturn ==
    /\ selCall # NoCall
    /\ selCall' = NoCall
    /\ UNCHANGED <<goos, sessVars, imgVars, vmVars, fnVars, lockVars, prepVars>>

(***************************************************************************)
(* The service session registry (Service.sessions under Service.mu)        *)
(***************************************************************************)

\* Two callers run concurrently. Bounds: the sessions ever created and the
\* cap on the per-session history counters.
MaxSessions == 2
MaxCount    == 2

Callers    == {"c1", "c2"}
SessionIds == 1..MaxSessions

SessionStateActive  == "active"
SessionStateStopped == "stopped"

\* The backends that implement backend.SessionBackend: off and apple-vm do,
\* docker does not.
SessionBackends == {"off", "apple-vm"}

\* No session id, and no caller (the zero value of the fields that hold one).
NoSid    == MaxSessions + 1
NoCaller == "none"

Idle ==
    [op |-> "idle", pc |-> "idle", sid |-> NoSid, found |-> FALSE,
     provider |-> "", afterStop |-> FALSE, stoppedAtStart |-> FALSE,
     regAtStart |-> FALSE, ret |-> "none", seen |-> ""]

Registered == DOMAIN sessions

\* managedSession as StartSession builds it (lines 361-378).
NewSession(provider) ==
    [state |-> SessionStateActive, selected |-> provider,
     hasSessionBackend |-> provider \in SessionBackends]

\* sync.RWMutex: Lock needs no writer and no reader, RLock needs no writer.
CanLock  == mu.writer = NoCaller /\ mu.readers = {}
CanRLock == mu.writer = NoCaller

\* s.mu.Unlock() (lines 379, 455, 459, 463): the writer lets go.
UnlockBad(m) == m
Unlock(m) == [m EXCEPT !.writer = NoCaller]

\* The ids no session and no StartSession in progress holds: newSessionID
\* draws 8 random bytes, taken here as never repeating.
FreshIds ==
    {i \in SessionIds : i \notin Registered /\ \A t \in Callers : thr[t].sid # i
                        \/ thr[t].op # "StartSession"}

\* Ids are opaque, so the lowest fresh one stands for any of them.
NextId == CHOOSE i \in FreshIds : \A j \in FreshIds : i <= j

Begin(t, op, pc, sid) ==
    thr' = [thr EXCEPT ![t] =
              [Idle EXCEPT !.op = op, !.pc = pc, !.sid = sid,
                           !.afterStop = sid \in Registered /\ hist.stopReturned[sid],
                           !.regAtStart = sid \in Registered,
                           !.stoppedAtStart =
                               sid \in Registered
                               /\ sessions[sid].state = SessionStateStopped]]

\* The history counters stop counting at MaxCount.
Bump(n) == IF n < MaxCount THEN n + 1 ELSE n

Finish(t, ret) == [thr EXCEPT ![t].pc = "done", ![t].ret = ret]

\* ---- StartSession -------------------------------------------------------

\* Line 325: the call begins; the id newSessionID will draw is opaque and is
\* set aside here.
StartSessionBegin(t) ==
    /\ thr[t].pc = "idle"
    /\ FreshIds # {}
    /\ thr' = [thr EXCEPT ![t] =
                 [Idle EXCEPT !.op = "StartSession", !.pc = "ss_backend",
                              !.sid = NextId]]
    /\ UNCHANGED <<sessions, mu, hist, selVars, imgVars, vmVars, fnVars, lockVars, prepVars>>

\* Lines 325-358: resolve, select (Probe), Prepare, newSessionID, backend
\* StartSession; all without the lock. The call fails when any stage fails.
StartSessionBackend(t) ==
    /\ thr[t].pc = "ss_backend"
    /\ \E p \in {ProviderOff, ProviderAppleVM, ProviderDocker, ProviderAuto},
          d \in {x \in ProbeRounds : \A n \in BackendNames : x[n].reason # "r2"},
          prepOk \in BOOLEAN, runOk \in BOOLEAN :
         LET r == ServiceRun("StartSession", p, ProviderAuto, goos, d, prepOk, runOk)
         IN  IF r.ok
             THEN thr' = [thr EXCEPT ![t].pc = "ss_lock", ![t].provider = r.selected]
             ELSE thr' = [thr EXCEPT ![t] =
                            [Idle EXCEPT !.op = "StartSession", !.pc = "done",
                                         !.ret = "error"]]
    /\ UNCHANGED <<sessions, mu, hist, selVars, imgVars, vmVars, fnVars, lockVars, prepVars>>

\* Line 369: s.mu.Lock()
StartSessionLock(t) ==
    /\ thr[t].pc = "ss_lock"
    /\ CanLock
    /\ mu' = [mu EXCEPT !.writer = t]
    /\ thr' = [thr EXCEPT ![t].pc = "ss_register"]
    /\ UNCHANGED <<sessions, hist, selVars, imgVars, vmVars, fnVars, lockVars, prepVars>>

\* Lines 370-379: the registry entry, then s.mu.Unlock()
StartSessionRegister(t) ==
    /\ thr[t].pc = "ss_register"
    /\ sessions' = [i \in Registered \cup {thr[t].sid} |->
                      IF i = thr[t].sid THEN NewSession(thr[t].provider)
                      ELSE sessions[i]]
    /\ mu' = Unlock(mu)
    /\ thr' = Finish(t, "session")
    /\ UNCHANGED <<hist, selVars, imgVars, vmVars, fnVars, lockVars, prepVars>>

\* ---- ExecInSession ------------------------------------------------------

\* Line 390: s.mu.RLock(), for any session id the caller names.
ExecInSessionBegin(t) ==
    /\ thr[t].pc = "idle"
    /\ \E i \in SessionIds : Begin(t, "ExecInSession", "e_rlock", i)
    /\ UNCHANGED <<sessions, mu, hist, selVars, imgVars, vmVars, fnVars, lockVars, prepVars>>

ExecInSessionRLock(t) ==
    /\ thr[t].pc = "e_rlock"
    /\ CanRLock
    /\ mu' = [mu EXCEPT !.readers = @ \cup {t}]
    /\ thr' = [thr EXCEPT ![t].pc = "e_lookup"]
    /\ UNCHANGED <<sessions, hist, selVars, imgVars, vmVars, fnVars, lockVars, prepVars>>

\* Lines 391-392: the lookup, then s.mu.RUnlock()
ExecInSessionLookup(t) ==
    /\ thr[t].pc = "e_lookup"
    /\ mu' = [mu EXCEPT !.readers = @ \ {t}]
    /\ thr' = [thr EXCEPT ![t].pc = "e_check",
                          ![t].found = thr[t].sid \in Registered]
    /\ UNCHANGED <<sessions, hist, selVars, imgVars, vmVars, fnVars, lockVars, prepVars>>

\* Lines 393-398: what the checks after the lookup return, "" to go on.
\* record is a pointer: State is read from the registry's record, not from
\* a copy taken under the lock.
ExecCheckBad(found, state) ==
    IF ~found THEN "session not found" ELSE ""
ExecCheck(found, state) ==
    IF ~found THEN "session not found"
    ELSE IF state # SessionStateActive THEN "session is not active"
    ELSE ""

ExecInSessionCheck(t) ==
    /\ thr[t].pc = "e_check"
    /\ LET st == IF thr[t].found THEN sessions[thr[t].sid].state ELSE ""
           e  == ExecCheck(thr[t].found, st)
       IN  thr' = IF e # "" THEN Finish(t, e)
                  ELSE [thr EXCEPT ![t].pc = "e_dispatch"]
    /\ UNCHANGED <<sessions, mu, hist, selVars, imgVars, vmVars, fnVars, lockVars, prepVars>>

\* Lines 409-434: the command is handed to the backend (ExecInSession of a
\* session backend, else Exec).
ExecInSessionDispatch(t) ==
    /\ thr[t].pc = "e_dispatch"
    /\ hist' = [hist EXCEPT !.execsStopped[thr[t].sid] =
                                @ \/ sessions[thr[t].sid].state = SessionStateStopped]
    /\ thr' = [thr EXCEPT ![t].pc = "e_running"]
    /\ UNCHANGED <<sessions, mu, selVars, imgVars, vmVars, fnVars, lockVars, prepVars>>

\* Lines 435-447: the backend returned, with a result or an error.
ExecInSessionReturn(t) ==
    /\ thr[t].pc = "e_running"
    /\ \E ok \in BOOLEAN : thr' = Finish(t, IF ok THEN "result" ELSE "backend error")
    /\ UNCHANGED <<sessions, mu, hist, selVars, imgVars, vmVars, fnVars, lockVars, prepVars>>

\* ---- StopSession --------------------------------------------------------

StopSessionBegin(t) ==
    /\ thr[t].pc = "idle"
    /\ \E i \in SessionIds : Begin(t, "StopSession", "s_lock", i)
    /\ UNCHANGED <<sessions, mu, hist, selVars, imgVars, vmVars, fnVars, lockVars, prepVars>>

\* Line 452: s.mu.Lock()
StopSessionLock(t) ==
    /\ thr[t].pc = "s_lock"
    /\ CanLock
    /\ mu' = [mu EXCEPT !.writer = t]
    /\ thr' = [thr EXCEPT ![t].pc = "s_flip"]
    /\ UNCHANGED <<sessions, hist, selVars, imgVars, vmVars, fnVars, lockVars, prepVars>>

\* Lines 453-463: what StopSession does under the lock: "not found", "noop"
\* for a session already stopped, else "flip" (State = stopped).
StopDecisionBad(found, state) ==
    IF ~found THEN "not found" ELSE "flip"
StopDecision(found, state) ==
    IF ~found THEN "not found"
    ELSE IF state = SessionStateStopped THEN "noop"
    ELSE "flip"

\* Line 462: the registry after the state flip. The entry stays.
StopFlipBad(reg, sid) == [i \in DOMAIN reg \ {sid} |-> reg[i]]
StopFlip(reg, sid) == [reg EXCEPT ![sid].state = SessionStateStopped]

StopSessionFlip(t) ==
    /\ thr[t].pc = "s_flip"
    /\ LET sid == thr[t].sid
           fnd == sid \in Registered
           d   == StopDecision(fnd, IF fnd THEN sessions[sid].state ELSE "")
       IN  /\ mu' = Unlock(mu)
           /\ UNCHANGED <<selVars, imgVars, vmVars, fnVars, lockVars, prepVars>>
           /\ CASE d = "not found" ->
                     /\ thr' = Finish(t, "session not found")
                     /\ UNCHANGED <<sessions, hist>>
                [] d = "noop" ->
                     /\ thr' = Finish(t, "nil")
                     /\ hist' = [hist EXCEPT !.stopReturned[sid] = TRUE,
                                             !.stopSeen[sid] = TRUE]
                     /\ UNCHANGED sessions
                [] d = "flip" ->
                     /\ sessions' = StopFlip(sessions, sid)
                     /\ hist' = [hist EXCEPT !.stopSeen[sid] = TRUE]
                     /\ thr' = IF sessions[sid].hasSessionBackend
                               THEN [thr EXCEPT ![t].pc = "s_backend"]
                               ELSE [thr EXCEPT ![t].pc = "s_return"]

\* Lines 465-470: StopSession of the session backend. Both session backends
\* of the repository return nil.
StopSessionBackend(t) ==
    /\ thr[t].pc = "s_backend"
    /\ hist' = [hist EXCEPT !.backendStops[thr[t].sid] = Bump(@)]
    /\ thr' = [thr EXCEPT ![t].pc = "s_return"]
    /\ UNCHANGED <<sessions, mu, selVars, imgVars, vmVars, fnVars, lockVars, prepVars>>

\* Lines 472-473: return nil
StopSessionReturn(t) ==
    /\ thr[t].pc = "s_return"
    /\ thr' = Finish(t, "nil")
    /\ hist' = [hist EXCEPT !.stopReturned[thr[t].sid] = TRUE]
    /\ UNCHANGED <<sessions, mu, selVars, imgVars, vmVars, fnVars, lockVars, prepVars>>

\* ---- GetSession ---------------------------------------------------------

GetSessionBegin(t) ==
    /\ thr[t].pc = "idle"
    /\ \E i \in SessionIds : Begin(t, "GetSession", "g_rlock", i)
    /\ UNCHANGED <<sessions, mu, hist, selVars, imgVars, vmVars, fnVars, lockVars, prepVars>>

GetSessionRLock(t) ==
    /\ thr[t].pc = "g_rlock"
    /\ CanRLock
    /\ mu' = [mu EXCEPT !.readers = @ \cup {t}]
    /\ thr' = [thr EXCEPT ![t].pc = "g_lookup"]
    /\ UNCHANGED <<sessions, hist, selVars, imgVars, vmVars, fnVars, lockVars, prepVars>>

\* Lines 479-480
GetSessionLookup(t) ==
    /\ thr[t].pc = "g_lookup"
    /\ mu' = [mu EXCEPT !.readers = @ \ {t}]
    /\ thr' = [thr EXCEPT ![t].pc = "g_clone",
                          ![t].found = thr[t].sid \in Registered]
    /\ UNCHANGED <<sessions, hist, selVars, imgVars, vmVars, fnVars, lockVars, prepVars>>

\* Lines 481-484: cloneSession(record.session), after the lock is released
GetSessionClone(t) ==
    /\ thr[t].pc = "g_clone"
    /\ thr' = IF ~thr[t].found THEN Finish(t, "session not found")
              ELSE [Finish(t, "session") EXCEPT
                       ![t].seen = sessions[thr[t].sid].state]
    /\ UNCHANGED <<sessions, mu, hist, selVars, imgVars, vmVars, fnVars, lockVars, prepVars>>

\* The caller takes the result and is free for its next call.
Return(t) ==
    /\ thr[t].pc = "done"
    /\ thr' = [thr EXCEPT ![t] = Idle]
    /\ UNCHANGED <<sessions, mu, hist, selVars, imgVars, vmVars, fnVars, lockVars, prepVars>>


(***************************************************************************)
(* The image artifact store                                                *)
(***************************************************************************)

\* Bound: the length in bytes of an artifact.
MaxLen == 2

\* Two byte values whose hex digits include letters (0x0a, 0xab).
Bytes == {10, 171}

Contents == UNION {[1..n -> Bytes] : n \in 0..MaxLen}

\* A file: whether it exists, and its bytes.
Absent == [exists |-> FALSE, data |-> <<>>]
File(d) == [exists |-> TRUE, data |-> d]

\* base.raw: whether it exists.
NoRaw   == [exists |-> FALSE]
RawFile == [exists |-> TRUE]

\* hex.EncodeToString of one byte.
HexOfByte(b) == IF b = 10 THEN <<"0", "a">> ELSE <<"a", "b">>

RECURSIVE HexEncode(_)
HexEncode(d) == IF d = <<>> THEN <<>> ELSE HexOfByte(Head(d)) \o HexEncode(Tail(d))

\* computeSHA256: the digest of the file's bytes, hex encoded in lower case.
\* The digest itself is taken as collision free: it stands for the bytes.
computeSHA256(d) == HexEncode(d)

ToLower(c) == IF c = "A" THEN "a" ELSE IF c = "B" THEN "b" ELSE c
ToUpper(c) == IF c = "a" THEN "A" ELSE IF c = "b" THEN "B" ELSE c

\* strings.EqualFold
EqualFold(x, y) ==
    /\ Len(x) = Len(y)
    /\ \A i \in 1..Len(x) : ToLower(x[i]) = ToLower(y[i])

\* A digest that no artifact has.
ZeroDigest == <<"0", "0">>

\* The descriptor's SHA256 as the catalog may state it for an artifact:
\* lower case, upper case, or wrong.
DigestsFor(d) ==
    {computeSHA256(d), [i \in 1..Len(computeSHA256(d)) |-> ToUpper(computeSHA256(d)[i])],
     ZeroDigest}

\* The catalog entry prepared here (catalog.go): its id, version, the lock
\* key and the cache paths EnsurePrepared derives from them.
DescID       == "debian-13-nocloud-arm64"
DescVersion  == "20260112-2355"
LockKey(id, version) == <<id, "@", version>>
ArtifactPath == <<"images", DescID, DescVersion, "artifact">>
RawPath      == <<"images", DescID, DescVersion, "base.raw">>

NoLock == [k \in {} |-> [sha256 |-> <<>>, artifact |-> <<>>, raw |-> <<>>]]

\* The Range header of a request: no header, or "bytes=<n>-" as {n}.
NoRange == {}
RangeFrom(n) == {n}

\* Lines 38-51: the Range offset the request carries, if any.
RangeHeader(f) ==
    IF f.exists /\ Len(f.data) > 0 THEN RangeFrom(Len(f.data)) ELSE NoRange

StatusOK             == 200
StatusPartialContent == 206
StatusRangeNotSatisfiable == 416
StatusServerError    == 500

\* What the origin may answer to a request with Range offset hdr while it
\* serves the bytes srv: the whole artifact with 200, the rest from the
\* offset with 206, 416 for an offset at or past the end, a server error,
\* or no answer at all.
ServerResponses(hdr, srv) ==
    {[kind |-> "response", status |-> StatusOK, body |-> srv],
     [kind |-> "response", status |-> StatusServerError, body |-> <<>>],
     [kind |-> "transport", status |-> 0, body |-> <<>>]}
    \cup {[kind |-> "response", status |-> StatusPartialContent,
            body |-> SubSeq(srv, n + 1, Len(srv))] : n \in {m \in hdr : m < Len(srv)}}
    \cup {[kind |-> "response", status |-> StatusRangeNotSatisfiable,
            body |-> <<>>] : n \in {m \in hdr : m >= Len(srv)}}

\* Lines 65-71: TRUE to append to the file, FALSE to truncate it.
AppendModeBad(status, f) == FALSE
AppendMode(status, f) ==
    status = StatusPartialContent /\ f.exists /\ Len(f.data) > 0

\* Line 115: whether the digest computed from the file is the expected one.
DigestMatchesBad(actual, expected) == TRUE
DigestMatches(actual, expected) == EqualFold(actual, expected)

\* Lines 116-117: the file after a digest mismatch.
AfterMismatchBad(written) == File(written)
AfterMismatch(written) == Absent

\* image.DownloadAndVerify on file f with the descriptor digest, given the
\* origin's answer resp and the number of body bytes copied before the
\* transfer ended; the copy fails when the body was cut short.
DownloadAndVerify(f, digest, resp, copied) ==
    LET written == (IF AppendMode(resp.status, f) THEN f.data ELSE <<>>)
                       \o SubSeq(resp.body, 1, copied)
        out(file, err) ==
            [file |-> file, err |-> err, hdr |-> RangeHeader(f),
             status |-> resp.status, complete |-> copied = Len(resp.body)]
    IN  IF resp.kind = "transport" THEN out(f, "transport")
        ELSE IF resp.status # StatusOK /\ resp.status # StatusPartialContent
        THEN out(f, "status")
        ELSE IF copied < Len(resp.body) THEN out(File(written), "copy")
        ELSE IF ~DigestMatches(computeSHA256(written), digest)
        THEN out(AfterMismatch(written), "mismatch")
        ELSE out(File(written), "nil")

\* The inputs of one download: the origin's answer, and how far the copy got.
DownloadInputs(f, srv) ==
    UNION {{[resp |-> r, copied |-> k] : k \in 0..Len(r.body)} :
              r \in ServerResponses(RangeHeader(f), srv)}

\* Manager.updateLock: the lock with the descriptor's entry upserted.
UpdateLock(l, digest) ==
    [k \in DOMAIN l \cup {LockKey(DescID, DescVersion)} |->
        IF k = LockKey(DescID, DescVersion)
        THEN [sha256 |-> digest, artifact |-> ArtifactPath, raw |-> RawPath]
        ELSE l[k]]

\* Manager.EnsurePrepared: download and verify, extract base.raw when it is
\* missing, update the lock. extractOk and lockOk are the outcomes of tar
\* and of loading and saving the lock file.
EnsurePrepared(f, r, l, digest, in, extractOk, lockOk) ==
    LET dl == DownloadAndVerify(f, digest, in.resp, in.copied)
        out(r2, l2, err, extracted, lockUpdated) ==
            [dl |-> dl, file |-> dl.file, raw |-> r2, lock |-> l2, err |-> err,
             extracted |-> extracted, lockUpdated |-> lockUpdated]
    IN  IF dl.err # "nil" THEN out(r, l, dl.err, FALSE, FALSE)
        ELSE IF ~r.exists /\ ~extractOk THEN out(NoRaw, l, "extract", FALSE, FALSE)
        ELSE IF ~lockOk THEN out(RawFile, l, "lock", ~r.exists, FALSE)
        ELSE out(RawFile, UpdateLock(l, digest), "nil", ~r.exists, TRUE)

NoImgCall ==
    [op |-> "none", pre |-> Absent, preRaw |-> NoRaw, preLock |-> NoLock,
     preCfg |-> "absent", hdr |-> NoRange, status |-> 0,
     complete |-> FALSE, servedCorrect |-> FALSE, dlErr |-> "nil",
     prepErr |-> "nil", err |-> "nil",
     extracted |-> FALSE, lockUpdated |-> FALSE, cfgWritten |-> FALSE]

\* What a call did: the files it found, the request it sent and the answer
\* it got, whether the origin served the artifact the descriptor names, the
\* errors of DownloadAndVerify, of EnsurePrepared and of the call, and which
\* steps the handler performed.
ImgCallRecord(op, dl, prepErr, err, extracted, lockUpdated, cfgWritten) ==
    [op |-> op, pre |-> artifact, preRaw |-> raw, preLock |-> lock,
     preCfg |-> projCfg, hdr |-> dl.hdr, status |-> dl.status,
     complete |-> dl.complete,
     servedCorrect |-> EqualFold(computeSHA256(imgEnv.served), imgEnv.digest),
     dlErr |-> dl.err, prepErr |-> prepErr, err |-> err, extracted |-> extracted,
     lockUpdated |-> lockUpdated, cfgWritten |-> cfgWritten]

\* DownloadAndVerify called on the artifact path, as TestDownloadAndVerify
\* calls it.
CallDownloadAndVerify ==
    /\ \E dl \in {DownloadAndVerify(artifact, imgEnv.digest, in.resp, in.copied) :
                       in \in DownloadInputs(artifact, imgEnv.served)} :
          /\ artifact' = dl.file
          /\ imgCall' = ImgCallRecord("DownloadAndVerify", dl, "nil", dl.err,
                                      FALSE, FALSE, FALSE)
    /\ UNCHANGED <<raw, lock, projCfg, imgEnv, selVars, sessVars, vmVars,
                   fnVars, lockVars, prepVars>>

CallEnsurePrepared ==
    /\ \E e \in {EnsurePrepared(artifact, raw, lock, imgEnv.digest, in,
                                  extractOk, lockOk) :
                      in \in DownloadInputs(artifact, imgEnv.served),
                      extractOk \in BOOLEAN, lockOk \in BOOLEAN} :
          /\ artifact' = e.file
          /\ raw' = e.raw
          /\ lock' = e.lock
          /\ imgCall' = ImgCallRecord("EnsurePrepared", e.dl, e.err, e.err,
                                      e.extracted, e.lockUpdated, FALSE)
    /\ UNCHANGED <<projCfg, imgEnv, selVars, sessVars, vmVars, fnVars, lockVars, prepVars>>

\* Service.Initialize (lines 71-152) for a valid request: EnsurePrepared,
\* then the project config is validated and saved. cfgOk is the outcome of
\* Validate and Save.
CallInitialize ==
    /\ \E e \in {EnsurePrepared(artifact, raw, lock, imgEnv.digest, in,
                                  extractOk, lockOk) :
                      in \in DownloadInputs(artifact, imgEnv.served),
                      extractOk \in BOOLEAN, lockOk \in BOOLEAN} :
          /\ artifact' = e.file
          /\ raw' = e.raw
          /\ lock' = e.lock
          /\ \/ /\ e.err # "nil"
                /\ projCfg' = projCfg
                /\ imgCall' = ImgCallRecord("Initialize", e.dl, e.err, e.err,
                                            e.extracted, e.lockUpdated, FALSE)
             \/ /\ e.err = "nil"
                /\ \E cfgOk \in BOOLEAN :
                      /\ projCfg' = IF cfgOk THEN "written" ELSE projCfg
                      /\ imgCall' = ImgCallRecord("Initialize", e.dl, "nil",
                                        IF cfgOk THEN "nil" ELSE "config",
                                        e.extracted, e.lockUpdated, cfgOk)
    /\ UNCHANGED <<imgEnv, selVars, sessVars, vmVars, fnVars, lockVars, prepVars>>

\* The origin replaces the artifact it serves under the descriptor's URL.
ServerReplace ==
    /\ \E d \in Contents :
          /\ d # imgEnv.served
          /\ imgEnv' = [imgEnv EXCEPT !.served = d]
    /\ UNCHANGED <<artifact, raw, lock, projCfg, imgCall, selVars, sessVars, vmVars,
                   fnVars, lockVars, prepVars>>

(***************************************************************************)
(* The apple-vm backend: one VM lifecycle under Exec or interactive Start  *)
(***************************************************************************)

\* The fixed deadlines, in seconds.
bootTimeout        == 90
loginTimeout       == 180
promptTimeout      == 30
stopTimeout        == 30
defaultExecTimeout == 600

\* Bound: the clock runs from 0 to MaxTime seconds, in steps of Tick.
MaxTime == 300
Tick    == promptTimeout

\* ExecRequest.TimeoutSeconds: none, or shorter or longer than a boot.
RequestTimeouts == {0, promptTimeout, bootTimeout + promptTimeout}

\* A point in time that may be absent: {} or {t}.
NoTime == {}
At(t)  == {t}
\* A timer set for d has fired; a context with deadline d is done.
Reached(d) == \E t \in d : clock >= t
\* time.Now().After(d)
After(d) == \E t \in d : clock > t

\* What the console buffer can hold: the getty's "login: ", a shell prompt,
\* the tty's echo of the exec script, and the exit-code line the script
\* prints when the command has finished.
ConsoleTokens == {"login", "prompt", "echo", "exitline"}

\* A VM as newVMRuntime leaves it: stopped, nothing printed, nothing sent.
\* out is the console buffer, which is only ever appended to; fresh tells
\* whether the guest has printed a shell prompt since the last line was sent.
NewVM == [state |-> "stopped", out |-> {}, sent |-> <<>>, fresh |-> FALSE]

NoVmCall ==
    [op |-> "none", pc |-> "idle", phase |-> "none", timeout |-> 0,
     deadline |-> NoTime, cancelled |-> FALSE,
     phaseDeadline |-> NoTime, waitCtx |-> "request",
     started |-> FALSE, stopAttempted |-> FALSE, afterStop |-> "done",
     cmdSent |-> NoTime, err |-> "nil",
     cause |-> "none", failedPhase |-> "none", failedAt |-> NoTime,
     trace |-> <<>>, staleWaits |-> {}, waitErr |-> "empty", copyErr |-> "open"]

Pending(c) == c.pc \notin {"idle", "done"}

\* ctx.Done() of the context the call was given, and its ctx.Err().
CtxDone(c) == c.cancelled \/ Reached(c.deadline)
CtxErr(c)  == IF c.cancelled THEN "canceled" ELSE "deadline"

\* The strings a wait looks for, as the tokens that contain them: the echo
\* of the script contains the literal exit-code marker.
Needles(phase) ==
    CASE phase = "login"  -> {"login", "prompt"}
      [] phase = "marker" -> {"echo", "exitline"}
      [] OTHER            -> {"prompt"}

\* strings.Contains(out, text) for some needle of the phase.
Contains(out, phase) == out \cap Needles(phase) # {}

\* waitForMatch begins: deadline := time.Now().Add(timeout).
EnterMatchWait(c, phase, timeout) ==
    [c EXCEPT !.pc = "wait_check", !.phase = phase, !.waitCtx = "request",
              !.phaseDeadline = At(clock + timeout), !.trace = Append(@, phase)]

\* WaitForState begins: a timer for the timeout, when there is one.
EnterStateWait(c, phase, ctx, timeout) ==
    [c EXCEPT !.pc = "state_check", !.phase = phase, !.waitCtx = ctx,
              !.phaseDeadline = IF timeout > 0 THEN At(clock + timeout) ELSE NoTime,
              !.trace = Append(@, phase)]

\* Whether the caller of the failed phase calls TryStop before it returns:
\* every error path of Exec and Start does, except the one after vm.Start.
StopsBeforeReturn(phase) == phase # "boot"

\* A phase failed: Exec or Start returns the error, after TryStop where the
\* code calls it.
Failed(c, cause) ==
    [c EXCEPT !.err = cause, !.cause = cause, !.failedPhase = c.phase,
              !.failedAt = At(clock), !.afterStop = "done",
              !.pc = IF StopsBeforeReturn(c.phase) THEN "try_stop" ELSE "done"]

\* SendLine, then the wait that follows it.
SendThenWait(c, v, line, ok, phase, timeout) ==
    IF ok
    THEN [c |-> EnterMatchWait(c, phase, timeout),
          v |-> [v EXCEPT !.sent = Append(@, line), !.fresh = FALSE]]
    ELSE [c |-> Failed(c, "send"), v |-> v]

\* The exec-marker wait: req.Timeout, or the default when it is not set.
ExecWait(c) == IF c.timeout > 0 THEN c.timeout ELSE defaultExecTimeout

\* The waits for a shell prompt that follow a line sent to the guest: after
\* root, after the mount command, after cd.
PromptWaits == {"postlogin", "mount", "cd"}

\* waitForMatch found a needle in the buffer (lines 626-636): the whole
\* buffer is searched, whatever was printed before the line was sent too.
\* staleWaits keeps the waits that returned with no prompt printed since.
Matched(c, v) ==
    IF c.phase \in PromptWaits /\ ~v.fresh
    THEN [c EXCEPT !.staleWaits = @ \cup {c.phase}]
    ELSE c

\* Bootstrap, lines 568-580: the first line sent. waitForAnyMatch returns
\* the first needle of its list that the buffer contains, and "login: " is
\* the first of the list.
FirstLineBad(out) == "root"
FirstLine(out) == IF "login" \in out THEN "root" ELSE "mount"

\* What Bootstrap, Exec and Start do when the wait of c.phase has matched.
AfterMatch(c, v, ok) ==
    CASE c.phase = "login" ->
            IF FirstLine(v.out) = "root"
            THEN SendThenWait(c, v, "root", ok, "postlogin", promptTimeout)
            ELSE SendThenWait(c, v, "mount", ok, "mount", promptTimeout)
      [] c.phase = "postlogin" ->
            SendThenWait(c, v, "mount", ok, "mount", promptTimeout)
      [] c.phase = "mount" /\ c.op = "Exec" ->
            SendThenWait([c EXCEPT !.cmdSent = IF ok THEN At(clock) ELSE @],
                         v, "script", ok, "marker", ExecWait(c))
      [] c.phase = "mount" /\ c.op = "Start" ->
            SendThenWait(c, v, "cd", ok, "cd", promptTimeout)
      [] c.phase = "cd" ->
            [c |-> [c EXCEPT !.pc = "interactive", !.phase = "interactive",
                             !.trace = Append(@, "interactive")],
             v |-> v]
      [] OTHER ->
            [c |-> EnterStateWait(c, "stopwait", "shutdown", stopTimeout), v |-> v]

\* Service.Exec wraps the context in the request timeout and calls
\* Backend.Exec, which creates the VM.
ExecBegin ==
    /\ call.pc = "idle"
    /\ \E t \in RequestTimeouts :
          call' = [call EXCEPT !.op = "Exec", !.pc = "vm_start", !.timeout = t,
                               !.deadline = IF t > 0 THEN At(clock + t) ELSE NoTime]
    /\ vm' = NewVM
    /\ UNCHANGED <<clock, selVars, sessVars, imgVars, fnVars, lockVars, prepVars>>

\* Service.Start calls Backend.Start with the caller's context.
StartBegin ==
    /\ call.pc = "idle"
    /\ call' = [call EXCEPT !.op = "Start", !.pc = "vm_start"]
    /\ vm' = NewVM
    /\ UNCHANGED <<clock, selVars, sessVars, imgVars, fnVars, lockVars, prepVars>>

\* vmRuntime.Start: start the VM, then wait for state running.
VmStart ==
    /\ call.pc = "vm_start"
    /\ \/ /\ call' = [call EXCEPT !.pc = "done", !.err = "start",
                                  !.cause = "start", !.failedPhase = "start"]
          /\ vm' = vm
       \/ /\ call' = EnterStateWait([call EXCEPT !.started = TRUE], "boot",
                                    "request", bootTimeout)
          /\ vm' = [vm EXCEPT !.state = "starting"]
    /\ UNCHANGED <<clock, selVars, sessVars, imgVars, fnVars, lockVars, prepVars>>

\* The state a WaitForState of the phase waits for.
WantedState(phase) == IF phase = "boot" THEN "running" ELSE "stopped"

\* Where the call goes when its WaitForState returned nil or an error.
StateReached(c) ==
    IF c.phase = "boot" THEN EnterMatchWait(c, "login", loginTimeout)
    ELSE [c EXCEPT !.pc = "parse"]

StateWaitFailed(c, cause) ==
    IF c.phase = "boot" THEN Failed(c, cause)
    ELSE [c EXCEPT !.pc = "try_stop", !.afterStop = "parse"]

\* WaitForState, lines 535-537: the state is already the wanted one.
WaitForStateCheck ==
    /\ call.pc = "state_check"
    /\ call' = IF vm.state = WantedState(call.phase) THEN StateReached(call)
               ELSE [call EXCEPT !.pc = "state_select"]
    /\ UNCHANGED <<vm, clock, selVars, sessVars, imgVars, fnVars, lockVars, prepVars>>

\* WaitForState, lines 547-564: one of the ready cases of the select.
WaitForStateSelect ==
    /\ call.pc = "state_select"
    /\ \/ /\ call.waitCtx = "request" /\ CtxDone(call)
          /\ call' = StateWaitFailed(call, CtxErr(call))
       \/ /\ Reached(call.phaseDeadline)
          /\ call' = StateWaitFailed(call, "timeout")
       \/ /\ vm.state = WantedState(call.phase)
          /\ call' = StateReached(call)
       \/ /\ vm.state = "error"
          /\ call' = StateWaitFailed(call, "vm-error")
    /\ UNCHANGED <<vm, clock, selVars, sessVars, imgVars, fnVars, lockVars, prepVars>>

\* waitForMatch, lines 625-638: look at the buffer, then at the deadline.
WaitForMatchCheck ==
    /\ call.pc = "wait_check"
    /\ \/ /\ Contains(vm.out, call.phase)
          /\ \E ok \in BOOLEAN :
                /\ call' = AfterMatch(Matched(call, vm), vm, ok).c
                /\ vm'   = AfterMatch(Matched(call, vm), vm, ok).v
       \/ /\ ~Contains(vm.out, call.phase)
          /\ call' = IF After(call.phaseDeadline) THEN Failed(call, "timeout")
                     ELSE [call EXCEPT !.pc = "wait_select"]
          /\ vm' = vm
    /\ UNCHANGED <<clock, selVars, sessVars, imgVars, fnVars, lockVars, prepVars>>

\* waitForMatch, lines 639-643: the context is done, or the ticker fires.
WaitForMatchSelect ==
    /\ call.pc = "wait_select"
    /\ \/ /\ CtxDone(call)
          /\ call' = Failed(call, CtxErr(call))
       \/ call' = [call EXCEPT !.pc = "wait_check"]
    /\ UNCHANGED <<vm, clock, selVars, sessVars, imgVars, fnVars, lockVars, prepVars>>

\* vmRuntime.TryStop: request a stop, wait, then stop hard; the VM is
\* stopped afterwards unless it could not be stopped.
TryStop ==
    /\ call.pc = "try_stop"
    /\ call' = [call EXCEPT !.stopAttempted = TRUE, !.pc = call.afterStop]
    /\ \/ vm' = [vm EXCEPT !.state = "stopped"]
       \/ vm' = vm
    /\ UNCHANGED <<clock, selVars, sessVars, imgVars, fnVars, lockVars, prepVars>>

\* Backend.Exec, lines 273-292: the result is parsed from the output; only
\* the exit-code line carries a code.
ParseOutput ==
    /\ call.pc = "parse"
    /\ call' = [call EXCEPT !.pc = "done",
                            !.err = IF "exitline" \in vm.out THEN "nil"
                                    ELSE "no-marker"]
    /\ UNCHANGED <<vm, clock, selVars, sessVars, imgVars, fnVars, lockVars, prepVars>>

\* Backend.Start, lines 198-201: the goroutine waiting for the VM to stop.
WaitInBackground ==
    /\ call.pc = "interactive" /\ call.waitErr = "empty"
    /\ \/ /\ vm.state = "stopped"
          /\ call' = [call EXCEPT !.waitErr = "nil"]
       \/ /\ CtxDone(call)
          /\ call' = [call EXCEPT !.waitErr = CtxErr(call)]
       \/ /\ vm.state = "error"
          /\ call' = [call EXCEPT !.waitErr = "vm-error"]
    /\ UNCHANGED <<vm, clock, selVars, sessVars, imgVars, fnVars, lockVars, prepVars>>

\* Backend.Start, lines 189-196: the host's stdin ends or fails.
StdinEnds ==
    /\ call.pc = "interactive" /\ call.copyErr = "open"
    /\ \E e \in {"eof", "err"} : call' = [call EXCEPT !.copyErr = e]
    /\ UNCHANGED <<vm, clock, selVars, sessVars, imgVars, fnVars, lockVars, prepVars>>

\* Backend.Start, lines 203-219: one of the ready cases of the select.
InteractiveSelect ==
    /\ call.pc = "interactive"
    /\ \/ /\ call.waitErr # "empty"
          /\ call' = IF call.waitErr = "nil" THEN [call EXCEPT !.pc = "done"]
                     ELSE [call EXCEPT !.pc = "done", !.err = call.waitErr,
                                       !.cause = call.waitErr,
                                       !.failedPhase = "interactive",
                                       !.failedAt = At(clock)]
          /\ vm' = vm
       \/ /\ call.copyErr = "err"
          /\ call' = Failed(call, "stdin")
          /\ vm' = vm
       \/ /\ call.copyErr = "eof"
          /\ call' = [call EXCEPT !.copyErr = "off"]
          /\ vm' = [vm EXCEPT !.sent = Append(@, "exit")]
       \/ /\ CtxDone(call)
          /\ call' = Failed(call, CtxErr(call))
          /\ vm' = vm
    /\ UNCHANGED <<clock, selVars, sessVars, imgVars, fnVars, lockVars, prepVars>>

\* The VM finishes starting, or fails to.
VmBoots ==
    /\ vm.state = "starting"
    /\ \E st \in {"running", "error"} : vm' = [vm EXCEPT !.state = st]
    /\ UNCHANGED <<call, clock, selVars, sessVars, imgVars, fnVars, lockVars, prepVars>>

\* The guest prints: a login prompt or a shell prompt while it runs (a
\* shell prompt again after each line it was sent), the echo of the script
\* and the exit-code line once the script was sent.
GuestPrints ==
    /\ vm.state = "running"
    /\ \E tok \in ConsoleTokens :
          /\ tok \notin vm.out \/ (tok = "prompt" /\ ~vm.fresh)
          /\ tok \in {"echo", "exitline"} =>
                \E i \in 1..Len(vm.sent) : vm.sent[i] = "script"
          /\ vm' = [vm EXCEPT !.out = @ \cup {tok},
                              !.fresh = @ \/ tok = "prompt"]
    /\ UNCHANGED <<call, clock, selVars, sessVars, imgVars, fnVars, lockVars, prepVars>>

\* The guest powers off: at the end of the exec script, or from the
\* interactive shell.
GuestPowerOff ==
    /\ vm.state = "running"
    /\ "exitline" \in vm.out \/ call.phase = "interactive"
    /\ vm' = [vm EXCEPT !.state = "stopped"]
    /\ UNCHANGED <<call, clock, selVars, sessVars, imgVars, fnVars, lockVars, prepVars>>

\* Time passes while a call is in progress.
TimePasses ==
    /\ Pending(call)
    /\ clock + Tick <= MaxTime
    /\ clock' = clock + Tick
    /\ UNCHANGED <<vm, call, selVars, sessVars, imgVars, fnVars, lockVars, prepVars>>

\* The caller cancels the context it gave to the call.
Cancel ==
    /\ Pending(call)
    /\ ~CtxDone(call)
    /\ call' = [call EXCEPT !.cancelled = TRUE]
    /\ UNCHANGED <<vm, clock, selVars, sessVars, imgVars, fnVars, lockVars, prepVars>>

(***************************************************************************)
(* The framed console stream of apple-vm Exec and its parsing              *)
(***************************************************************************)

\* Console text is a sequence of characters in which each marker string is
\* one element.
stdoutBeginMarker == "__VIBEBOX_STDOUT_BEGIN__"
stdoutEndMarker   == "__VIBEBOX_STDOUT_END__"
stderrBeginMarker == "__VIBEBOX_STDERR_BEGIN__"
stderrEndMarker   == "__VIBEBOX_STDERR_END__"
exitCodeMarker    == "__VIBEBOX_EXIT_CODE__"

Markers == {stdoutBeginMarker, stdoutEndMarker, stderrBeginMarker,
            stderrEndMarker, exitCodeMarker}

NL == "\n"

DigitChars == <<"0", "1", "2", "3", "4", "5", "6", "7", "8", "9">>
IsDigit(c) == \E i \in DOMAIN DigitChars : DigitChars[i] = c
DigitValue(c) == (CHOOSE i \in DOMAIN DigitChars : DigitChars[i] = c) - 1

\* strconv.Atoi on a run of digits.
RECURSIVE Atoi(_)
Atoi(ds) ==
    IF ds = <<>> THEN 0
    ELSE Atoi(SubSeq(ds, 1, Len(ds) - 1)) * Len(DigitChars) + DigitValue(ds[Len(ds)])

\* The shell's expansion of "$rc": the decimal digits of the exit status.
RECURSIVE Itoa(_)
Itoa(n) ==
    IF n < Len(DigitChars) THEN <<DigitChars[n + 1]>>
    ELSE Itoa(n \div Len(DigitChars)) \o <<DigitChars[(n % Len(DigitChars)) + 1]>>

\* Bounds: the length of a command's stdout and stderr together, and the
\* length of a console stream that is not the framed one.
MaxText    == 2
MaxConsole == 3

\* Exit statuses of a command: the ends of the range and one in between.
ExitCodes == {0, 7, 255}

\* What a command may print: ordinary text, newlines, the marker strings
\* and a digit.
TextChars == {"a", NL, "7"} \cup Markers
Texts(n)  == UNION {[1..k -> TextChars] : k \in 0..n}

\* What an unframed console may hold.
ConsoleChars == {"a", NL, "2", "7", exitCodeMarker, stdoutBeginMarker}

\* buildExecScript: what the script prints around the command's stdout s
\* and stderr e and after them the exit status rc.
FramedOutput(s, e, rc) ==
    <<stdoutBeginMarker, NL>> \o s \o <<NL, stdoutEndMarker, NL>>
      \o <<stderrBeginMarker, NL>> \o e \o <<NL, stderrEndMarker, NL>>
      \o <<exitCodeMarker>> \o Itoa(rc) \o <<NL>>

\* The longest run of digits of out that starts at position i.
RECURSIVE DigitRun(_, _)
DigitRun(out, i) ==
    IF i <= Len(out) /\ IsDigit(out[i])
    THEN <<out[i]>> \o DigitRun(out, i + 1)
    ELSE <<>>

\* regexp FindAllStringSubmatch for marker(\d+), from position i on: the
\* digit runs of the matches, left to right, none overlapping.
RECURSIVE FindAllExit(_, _)
FindAllExit(out, i) ==
    IF i > Len(out) THEN <<>>
    ELSE IF out[i] = exitCodeMarker /\ DigitRun(out, i + 1) # <<>>
    THEN <<DigitRun(out, i + 1)>>
           \o FindAllExit(out, i + 1 + Len(DigitRun(out, i + 1)))
    ELSE FindAllExit(out, i + 1)

\* Which match parseExitMarker takes.
TakenMatchBad(matches) == matches[1]
TakenMatch(matches) == matches[Len(matches)]

parseExitMarker(out) ==
    LET matches == FindAllExit(out, 1)
    IN  IF matches = <<>> THEN [code |-> 0, ok |-> FALSE]
        ELSE [code |-> Atoi(TakenMatch(matches)), ok |-> TRUE]

\* strings.LastIndex and strings.Index for a one-element needle, as the
\* set of positions: {} when there is none.
LastIndex(out, x) ==
    {i \in 1..Len(out) : out[i] = x /\ \A j \in (i + 1)..Len(out) : out[j] # x}
Index(out, x) ==
    {i \in 1..Len(out) : out[i] = x /\ \A j \in 1..(i - 1) : out[j] # x}

extractBetweenMarkers(out, begin, end) ==
    IF LastIndex(out, begin) = {} THEN [text |-> <<>>, ok |-> FALSE]
    ELSE LET start     == CHOOSE i \in LastIndex(out, begin) : TRUE
             remaining == SubSeq(out, start + 1, Len(out))
         IN  IF Index(remaining, end) = {} THEN [text |-> <<>>, ok |-> FALSE]
             ELSE [text |-> SubSeq(remaining, 1,
                                   (CHOOSE i \in Index(remaining, end) : TRUE) - 1),
                   ok |-> TRUE]

\* strings.TrimPrefix(s, "\n")
TrimPrefix(s) == IF s # <<>> /\ Head(s) = NL THEN Tail(s) ELSE s

NoParse == [stdout |-> <<>>, stderr |-> <<>>, exitCode |-> 0, ok |-> FALSE]

parseStructuredExecOutput(out) ==
    LET exit == parseExitMarker(out)
        so   == extractBetweenMarkers(out, stdoutBeginMarker, stdoutEndMarker)
        se   == extractBetweenMarkers(out, stderrBeginMarker, stderrEndMarker)
    IN  IF ~exit.ok \/ ~so.ok \/ ~se.ok THEN NoParse
        ELSE [stdout |-> TrimPrefix(so.text), stderr |-> TrimPrefix(se.text),
              exitCode |-> exit.code, ok |-> TRUE]

\* Whether a line holds the exit marker followed by a digit.
LineHasExit(line) == FindAllExit(line, 1) # <<>>

\* stripExitMarker: every line that holds the marker followed by digits is
\* removed together with its newline.
RECURSIVE stripExitMarker(_)
stripExitMarker(out) ==
    IF out = <<>> THEN <<>>
    ELSE LET k    == IF Index(out, NL) = {} THEN Len(out) + 1
                     ELSE CHOOSE i \in Index(out, NL) : TRUE
             line == SubSeq(out, 1, k - 1)
             kept == IF LineHasExit(line) THEN <<>>
                     ELSE SubSeq(out, 1, IF k <= Len(out) THEN k ELSE Len(out))
         IN  kept \o stripExitMarker(SubSeq(out, k + 1, Len(out)))

\* Backend.Exec, lines 273-292: the ExecResult made from the console
\* output, or the error that no exit marker was found.
ExecResultOf(out) ==
    LET st == parseStructuredExecOutput(out)
        ex == parseExitMarker(out)
    IN  IF st.ok
        THEN [err |-> "nil", stdout |-> st.stdout, stderr |-> st.stderr,
              exitCode |-> st.exitCode]
        ELSE IF ex.ok
        THEN [err |-> "nil", stdout |-> stripExitMarker(out), stderr |-> <<>>,
              exitCode |-> ex.code]
        ELSE [err |-> "no-marker", stdout |-> <<>>, stderr |-> <<>>, exitCode |-> 0]

\* The runs of a command under the exec script: its stdout and stderr, of
\* at most MaxText characters together, its exit status, and the console
\* stream the script prints for them.
FramedRuns ==
    UNION {{[kind |-> "framed", stdout |-> s, stderr |-> e, rc |-> rc,
             console |-> FramedOutput(s, e, rc)] :
               e \in Texts(MaxText - Len(s)), rc \in ExitCodes} :
           s \in Texts(MaxText)}

\* Console streams of any shape.
RawConsoles ==
    {[kind |-> "raw", stdout |-> <<>>, stderr |-> <<>>, rc |-> 0, console |-> c] :
        c \in UNION {[1..k -> ConsoleChars] : k \in 0..MaxConsole}}

NotParsed == [err |-> "pending", stdout |-> <<>>, stderr |-> <<>>, exitCode |-> 0]

\* Backend.Exec turns the console output of a finished run into its result.
ExecParsesOutput ==
    /\ fnArgs.kind \in {"framed", "raw"}
    /\ fnRet = NotParsed
    /\ fnRet' = ExecResultOf(fnArgs.console)
    /\ UNCHANGED <<fnArgs, selVars, sessVars, imgVars, vmVars, lockVars, prepVars>>

(***************************************************************************)
(* The image lock file shared by concurrent processes                      *)
(***************************************************************************)

\* Bound: the number of processes that use the lock file at once.
MaxProcs == 2
Procs == 1..MaxProcs

\* The keys of the catalog's two images, in the order yaml.Marshal writes
\* the keys of a map.
CatalogKeys ==
    <<LockKey("debian-13-nocloud-amd64", DescVersion), LockKey(DescID, DescVersion)>>
KeySet == {CatalogKeys[i] : i \in DOMAIN CatalogKeys}

\* The file as a sequence of lines: the updated_at line, then one line per
\* entry of images.
UpdatedAtLine == <<"updated_at">>

InImages(images, k) == k \in images
Payload(images) ==
    LET Member(k) == InImages(images, k)
    IN  <<UpdatedAtLine>> \o SelectSeq(CatalogKeys, Member)

FileAbsent == [exists |-> FALSE, content |-> <<>>]

\* A content that one yaml.Marshal of a lock produced.
IsComplete(content) == \E images \in SUBSET KeySet : content = Payload(images)

\* LoadImageLock: a missing file and an empty file give the empty lock, a
\* marshalled lock gives its entries, anything else fails in yaml.Unmarshal.
LoadImageLock(f) ==
    IF ~f.exists \/ f.content = <<>> THEN [err |-> "nil", images |-> {}]
    ELSE IF IsComplete(f.content)
    THEN [err |-> "nil",
          images |-> CHOOSE images \in SUBSET KeySet : f.content = Payload(images)]
    ELSE [err |-> "yaml", images |-> {}]

\* os.WriteFile opens the file with O_TRUNC.
OpenTrunc(f) == [exists |-> TRUE, content |-> <<>>]

\* The write of the payload at offset 0 of the open file.
WriteAt0(content, payload) ==
    payload \o SubSeq(content, Len(payload) + 1, Len(content))

NoObs == [made |-> FALSE, seen |-> FileAbsent, during |-> FALSE]
IdleProc == [pc |-> "idle", images |-> {}, obs |-> NoObs]

\* What a call of LoadImageLock by p reads, and whether another process
\* had the file open in os.WriteFile at that time.
Observe(p) ==
    [made |-> TRUE, seen |-> [exists |-> lockFile.exists, content |-> lockFile.content],
     during |-> \E q \in Procs \ {p} : procs[q].pc = "write"]

\* A reader of the lock (image listing, doctor) calls LoadImageLock.
ReadLock ==
    \E p \in Procs :
        /\ procs[p].pc = "idle"
        /\ procs' = [procs EXCEPT ![p].obs = Observe(p)]
        /\ UNCHANGED <<lockFile, selVars, sessVars, imgVars, vmVars, fnVars, prepVars>>

\* updateLock, lines 134-148: load the lock, return on an error, set the
\* entry of the prepared image.
UpdateLockLoads ==
    \E p \in Procs, k \in KeySet :
        /\ procs[p].pc = "idle"
        /\ LET r == LoadImageLock(lockFile)
           IN  procs' = [procs EXCEPT ![p] =
                   IF r.err # "nil" THEN [IdleProc EXCEPT !.obs = Observe(p)]
                   ELSE [pc |-> "save", images |-> r.images \cup {k},
                         obs |-> Observe(p)]]
        /\ UNCHANGED <<lockFile, selVars, sessVars, imgVars, vmVars, fnVars, prepVars>>

\* SaveImageLock up to the open of os.WriteFile, which truncates the file.
SaveOpens ==
    \E p \in Procs :
        /\ procs[p].pc = "save"
        /\ lockFile' = [lockFile EXCEPT !.exists = OpenTrunc(lockFile).exists,
                                        !.content = OpenTrunc(lockFile).content]
        /\ procs' = [procs EXCEPT ![p].pc = "write"]
        /\ UNCHANGED <<selVars, sessVars, imgVars, vmVars, fnVars, prepVars>>

\* os.WriteFile writes the payload and closes the file; updateLock returns.
\* written collects the entries that a finished save wrote.
SaveWrites ==
    \E p \in Procs :
        /\ procs[p].pc = "write"
        /\ lockFile' = [lockFile EXCEPT
               !.content = WriteAt0(lockFile.content, Payload(procs[p].images)),
               !.written = lockFile.written \cup procs[p].images]
        /\ procs' = [procs EXCEPT ![p] = [IdleProc EXCEPT !.obs = procs[p].obs]]
        /\ UNCHANGED <<selVars, sessVars, imgVars, vmVars, fnVars, prepVars>>

(***************************************************************************)
(* apple-vm Prepare and the project's instance disk                        *)
(***************************************************************************)

\* Bound: the number of Prepare calls in one behaviour.
MaxPrepares == 6

NoInstance == [exists |-> FALSE, data |-> "none"]
Instance(data) == [exists |-> TRUE, data |-> data]

\* os.Stat(spec.InstanceRaw) returned no error.
InstanceReadyBad(inst) == FALSE
InstanceReady(inst) == inst.exists

\* copyFile: os.Create fails and leaves no file, or the copy fails after
\* os.Create and leaves what was written, or the copy is complete.
CopyOutcomes == {"ok", "create-fails", "copy-fails"}

\* provisionInstance: no script is configured; the script cannot be read
\* or Exec fails before the script ends or the script exits non-zero; the
\* script exits 0 and Exec returns it; the script exits 0 and Exec fails
\* afterwards.
ProvisionOutcomes(script) ==
    IF script THEN {"fails", "ok", "ok-then-exec-error"} ELSE {"no-script"}

ScriptCompleted(outcome) == outcome \in {"ok", "ok-then-exec-error"}

NoPrepare ==
    [op |-> "none", preBase |-> FALSE, pre |-> NoInstance, post |-> NoInstance,
     err |-> "nil", copied |-> FALSE, ranScript |-> FALSE,
     prov |-> "not-run", prevProv |-> "not-run"]

\* os.Remove(spec.InstanceRaw) after a failed provisioning.
RemoveBad(inst) == inst
Remove(inst) == NoInstance

\* Backend.Prepare on base_raw (present or not) and instance_raw inst:
\* the instance disk afterwards, the error, whether the base image was
\* copied, whether provisionInstance was called, whether the script
\* completed with exit code 0, and the outcome of provisionInstance.
Prepare(base, inst, mkdirOk, copy, prov) ==
    LET out(post, err, copied, ranScript, completed) ==
            [post |-> post, err |-> err, copied |-> copied,
             ranScript |-> ranScript, completed |-> completed,
             prov |-> IF ranScript THEN prov ELSE "not-run"]
    IN  IF ~base THEN out(inst, "base-missing", FALSE, FALSE, FALSE)
        ELSE IF InstanceReady(inst) THEN out(inst, "nil", FALSE, FALSE, FALSE)
        ELSE IF ~mkdirOk THEN out(inst, "mkdir", FALSE, FALSE, FALSE)
        ELSE IF copy = "create-fails"
        THEN out(inst, "create-instance-disk", FALSE, FALSE, FALSE)
        ELSE IF copy = "copy-fails"
        THEN out(Instance("partial"), "create-instance-disk", TRUE, FALSE, FALSE)
        ELSE IF prov = "no-script" THEN out(Instance("base"), "nil", TRUE, TRUE, FALSE)
        ELSE IF prov = "ok" THEN out(Instance("provisioned"), "nil", TRUE, TRUE, TRUE)
        ELSE out(Remove(Instance("base")), "provision-instance-disk", TRUE,
                 TRUE, ScriptCompleted(prov))

\* A call of Backend.Prepare.  scriptRuns counts the completions of the
\* provisioning script on the disk that exists now: copyFile's os.Create
\* starts a new disk.  last keeps the call's outcome and the provisioning
\* outcome of the call before it.
CallPrepare ==
    /\ disk.calls < MaxPrepares
    /\ \E r \in {Prepare(disk.base, disk.instance, mkdirOk, copy, prov) :
                    mkdirOk \in BOOLEAN, copy \in CopyOutcomes,
                    prov \in ProvisionOutcomes(disk.script)} :
          disk' = [disk EXCEPT
              !.instance = r.post,
              !.calls = disk.calls + 1,
              !.scriptRuns = (IF r.copied THEN 0 ELSE disk.scriptRuns)
                                + (IF r.completed THEN 1 ELSE 0),
              !.last = [op |-> "Prepare", preBase |-> disk.base,
                        pre |-> disk.instance, post |-> r.post, err |-> r.err,
                        copied |-> r.copied, ranScript |-> r.ranScript,
                        prov |-> r.prov, prevProv |-> disk.last.prov]]
    /\ UNCHANGED <<selVars, sessVars, imgVars, vmVars, fnVars, lockVars>>

\* EnsurePrepared extracts base.raw into the image cache.
BaseExtracted ==
    /\ ~disk.base
    /\ disk' = [disk EXCEPT !.base = TRUE]
    /\ UNCHANGED <<selVars, sessVars, imgVars, vmVars, fnVars, lockVars>>

\* The user deletes the project's instance disk.
InstanceDeleted ==
    /\ disk.instance.exists
    /\ disk' = [disk EXCEPT !.instance = NoInstance, !.scriptRuns = 0]
    /\ UNCHANGED <<selVars, sessVars, imgVars, vmVars, fnVars, lockVars>>

(***************************************************************************)
(* Paths, and the working directory of apple-vm requests                   *)
(***************************************************************************)

\* A path is its leading "/" (abs) and its elements between slashes; the
\* empty string is the relative path of no elements.
Path(abs, segs) == [abs |-> abs, segs |-> segs]
EmptyPath == Path(FALSE, <<>>)
IsEmpty(p) == p = EmptyPath

\* strings.HasPrefix(p, "/") and filepath.IsAbs on a slash-separated path.
IsAbs(p) == p.abs

\* filepath.Clean, element by element: "." is dropped, ".." removes the
\* element before it, is dropped at the root and is kept at the start of a
\* relative path.  The relative path of no elements is the cleaned ".".
RECURSIVE CleanInto(_, _, _)
CleanInto(abs, kept, segs) ==
    IF segs = <<>> THEN kept
    ELSE IF Head(segs) = "." THEN CleanInto(abs, kept, Tail(segs))
    ELSE IF Head(segs) = ".."
    THEN IF kept # <<>> /\ kept[Len(kept)] # ".."
         THEN CleanInto(abs, SubSeq(kept, 1, Len(kept) - 1), Tail(segs))
         ELSE IF abs THEN CleanInto(abs, kept, Tail(segs))
         ELSE CleanInto(abs, Append(kept, ".."), Tail(segs))
    ELSE CleanInto(abs, Append(kept, Head(segs)), Tail(segs))

Clean(p) == Path(p.abs, CleanInto(p.abs, <<>>, p.segs))

\* filepath.Join of two elements: empty elements are ignored, the rest is
\* joined with a slash and cleaned.
Join(a, b) ==
    IF IsEmpty(a) THEN Clean(b)
    ELSE Clean(Path(a.abs, a.segs \o b.segs))

\* The number of leading elements two sequences share.
RECURSIVE CommonPrefixLen(_, _)
CommonPrefixLen(s, t) ==
    IF s = <<>> \/ t = <<>> \/ Head(s) # Head(t) THEN 0
    ELSE 1 + CommonPrefixLen(Tail(s), Tail(t))

\* filepath.Rel: the cleaned target relative to the cleaned base, by the
\* elements alone; an error when only one of the two is absolute.
Rel(base, targ) ==
    LET b == Clean(base).segs
        t == Clean(targ).segs
        n == CommonPrefixLen(b, t)
    IN  [err  |-> IF base.abs = targ.abs THEN "nil" ELSE "rel",
         path |-> Path(FALSE, [i \in 1..(Len(b) - n) |-> ".."]
                                \o SubSeq(t, n + 1, Len(t)))]

\* rel == ".." || strings.HasPrefix(rel, "../")
EscapesBad(rel) == FALSE
Escapes(rel) == rel.segs # <<>> /\ rel.segs[1] = ".."

workspaceGuestPath == Path(TRUE, <<"workspace">>)

\* The project root of the requests.
ProjectRoot == Path(TRUE, <<"p">>)

\* Bounds: the elements of a requested cwd and the mounts of a config.
MaxSegs   == 3
MaxMounts == 2

\* Requested working directories: the empty string, relative and absolute
\* paths.
CwdElements == {"a", "p", ".", ".."}
Cwds == {Path(abs, segs) : abs \in BOOLEAN,
                           segs \in UNION {[1..k -> CwdElements] : k \in 0..MaxSegs}}

\* Mounts of a validated config: host and guest are not empty.
MountHosts == {Path(FALSE, <<".">>), Path(FALSE, <<"a">>), Path(TRUE, <<"p">>)}
MountGuests == {workspaceGuestPath, Path(TRUE, <<"cache">>)}
MountChoices == {[host |-> h, guest |-> g] : h \in MountHosts, g \in MountGuests}
MountLists == UNION {[1..k -> MountChoices] : k \in 0..MaxMounts}

\* The host path of a mount as projectRootGuestFromSpec compares it.
MountHostPath(root, m) ==
    Clean(IF IsAbs(m.host) THEN m.host ELSE Join(root, m.host))

\* projectRootGuestFromSpec: the guest path of the first mount whose host
\* path is the project root.
projectRootGuestFromSpec(root, mounts) ==
    LET hits == {i \in DOMAIN mounts :
                    /\ ~IsEmpty(mounts[i].guest) /\ ~IsEmpty(mounts[i].host)
                    /\ MountHostPath(root, mounts[i]) = Clean(root)}
    IN  IF hits = {} THEN [ok |-> FALSE, guest |-> EmptyPath]
        ELSE [ok |-> TRUE,
              guest |-> mounts[CHOOSE i \in hits : \A j \in hits : i <= j].guest]

\* workspaceGuestFromSpec: that guest path, else the guest path of the
\* first mount that has one, else /workspace.
workspaceGuestFromSpec(root, mounts) ==
    LET withGuest == {i \in DOMAIN mounts : ~IsEmpty(mounts[i].guest)}
    IN  IF projectRootGuestFromSpec(root, mounts).ok
        THEN projectRootGuestFromSpec(root, mounts).guest
        ELSE IF withGuest # {}
        THEN mounts[CHOOSE i \in withGuest : \A j \in withGuest : i <= j].guest
        ELSE workspaceGuestPath

resolveVMGuestCwd(root, requested, workspaceGuest) ==
    IF IsEmpty(requested) THEN [err |-> "nil", cwd |-> workspaceGuest]
    ELSE IF IsAbs(requested) THEN [err |-> "nil", cwd |-> requested]
    ELSE LET hostPath == Clean(Join(root, requested))
             rel      == Rel(root, hostPath)
         IN  IF rel.err # "nil" THEN [err |-> rel.err, cwd |-> EmptyPath]
             ELSE IF Escapes(rel.path) THEN [err |-> "escapes", cwd |-> EmptyPath]
             ELSE [err |-> "nil", cwd |-> Join(workspaceGuest, rel.path)]

\* The first lines of Backend.Exec and of Backend.StartSession: the guest
\* cwd of the request, or the error returned before anything else is done.
GuestCwdOf(root, mounts, cwd) ==
    IF ~IsEmpty(cwd) /\ ~IsAbs(cwd) /\ ~projectRootGuestFromSpec(root, mounts).ok
    THEN [err |-> "no-project-mount", cwd |-> EmptyPath]
    ELSE resolveVMGuestCwd(root, cwd,
             IF ~IsEmpty(cwd) /\ ~IsAbs(cwd)
             THEN projectRootGuestFromSpec(root, mounts).guest
             ELSE workspaceGuestFromSpec(root, mounts))

NoCwdResult == [op |-> "none", err |-> "nil", cwd |-> EmptyPath, vmCreated |-> FALSE]

\* Backend.Exec up to newVMRuntime, which is reached only with a guest cwd.
VmExecResolvesCwd ==
    /\ fnArgs.kind = "vmcwd" /\ fnRet = NoCwdResult
    /\ LET r == GuestCwdOf(fnArgs.root, fnArgs.mounts, fnArgs.cwd)
       IN  fnRet' = [op |-> "Exec", err |-> r.err, cwd |-> r.cwd,
                     vmCreated |-> r.err = "nil"]
    /\ UNCHANGED <<fnArgs, selVars, sessVars, imgVars, vmVars, lockVars, prepVars>>

\* Backend.StartSession: the handle keeps the guest cwd; no VM is created.
VmStartSessionResolvesCwd ==
    /\ fnArgs.kind = "vmcwd" /\ fnRet = NoCwdResult
    /\ LET r == GuestCwdOf(fnArgs.root, fnArgs.mounts, fnArgs.cwd)
       IN  fnRet' = [op |-> "StartSession", err |-> r.err, cwd |-> r.cwd,
                     vmCreated |-> FALSE]
    /\ UNCHANGED <<fnArgs, selVars, sessVars, imgVars, vmVars, lockVars, prepVars>>

(***************************************************************************)
(* The off backend: host working directory and environment                 *)
(***************************************************************************)

\* os.Stat of the host path: a directory, another file, or nothing there.
StatResults == {"dir", "file", "missing"}

\* rel == ".." || strings.HasPrefix(rel, "../") in resolveHostCwd.
EscapesRootBad(rel) == FALSE
EscapesRoot(rel) == rel.segs # <<>> /\ rel.segs[1] = ".."

resolveHostCwd(root, requested, stat) ==
    IF IsEmpty(requested) THEN [err |-> "nil", host |-> root]
    ELSE LET host == IF IsAbs(requested) THEN Clean(requested)
                     ELSE Clean(Join(root, requested))
             rel  == Rel(root, host)
         IN  IF rel.err # "nil" THEN [err |-> rel.err, host |-> EmptyPath]
             ELSE IF EscapesRoot(rel.path) THEN [err |-> "escapes", host |-> EmptyPath]
             ELSE IF stat = "missing" THEN [err |-> "stat", host |-> EmptyPath]
             ELSE IF stat # "dir" THEN [err |-> "not-a-directory", host |-> EmptyPath]
             ELSE [err |-> "nil", host |-> host]

NoOffResult ==
    [op |-> "none", reqCwd |-> EmptyPath, handle |-> EmptyPath, err |-> "nil",
     dir |-> EmptyPath, started |-> FALSE]

\* Backend.Exec of the off backend: the command is started in cmd.Dir only
\* when resolveHostCwd returned no error.
OffExecResult(op, root, handle, requested, effective, stat) ==
    LET r == resolveHostCwd(root, effective, stat)
    IN  [op |-> op, reqCwd |-> requested, handle |-> handle, err |-> r.err,
         dir |-> r.host, started |-> r.err = "nil"]

OffExec ==
    /\ fnArgs.kind = "offcwd" /\ fnRet = NoOffResult
    /\ fnRet' = OffExecResult("Exec", fnArgs.root, EmptyPath, fnArgs.cwd,
                              fnArgs.cwd, fnArgs.stat)
    /\ UNCHANGED <<fnArgs, selVars, sessVars, imgVars, vmVars, lockVars, prepVars>>

\* Backend.StartSession: the handle keeps the resolved cwd; no process.
OffStartSession ==
    /\ fnArgs.kind = "offcwd" /\ fnRet = NoOffResult
    /\ LET r == resolveHostCwd(fnArgs.root, fnArgs.cwd, fnArgs.stat)
       IN  fnRet' = [op |-> "StartSession", reqCwd |-> fnArgs.cwd,
                     handle |-> r.host, err |-> r.err, dir |-> EmptyPath,
                     started |-> FALSE]
    /\ UNCHANGED <<fnArgs, selVars, sessVars, imgVars, vmVars, lockVars, prepVars>>

\* The cwd of requests made in a session.
SessionCwds ==
    {EmptyPath, Path(FALSE, <<"a">>), Path(FALSE, <<"..">>), Path(FALSE, <<"..", "p">>),
     Path(TRUE, <<"p", "a">>), Path(TRUE, <<"q">>), Path(TRUE, <<>>)}

\* Backend.ExecInSession: the request's cwd, or the handle's when the
\* request has none, goes through Backend.Exec.
OffExecInSession ==
    /\ fnArgs.kind = "offcwd"
    /\ fnRet.op = "StartSession" /\ fnRet.err = "nil"
    /\ \E c \in SessionCwds, stat \in StatResults :
          fnRet' = OffExecResult("ExecInSession", fnArgs.root, fnRet.handle, c,
                                 IF IsEmpty(c) THEN fnRet.handle ELSE c, stat)
    /\ UNCHANGED <<fnArgs, selVars, sessVars, imgVars, vmVars, lockVars, prepVars>>

\* The allow-list of mergeRestrictedEnv.
allow == {"PATH", "HOME", "USER", "SHELL", "LANG", "LC_ALL", "TMPDIR"}

AllowedBad(k) == TRUE
Allowed(k) == k \in allow

\* sort.Strings on the variable names the model uses.
SortedNames ==
    <<"FOO", "HOME", "LANG", "LC_ALL", "LD_PRELOAD", "PATH", "SECRET", "SHELL",
      "TMPDIR", "USER">>

\* An environment is a function from the names that are set to their
\* values; os.Environ's "name=value" strings are its pairs.
Envs(names, values) == UNION {[ks -> values] : ks \in SUBSET names}

\* Host environments: two allow-listed names and two that are not.
HostNames  == {"PATH", "TMPDIR", "SECRET", "LD_PRELOAD"}
HostValues == {"h1", "h2"}
HostEnvs   == Envs(HostNames, HostValues)

\* req.env: an allow-listed name and one that is not.
ReqNames  == {"PATH", "FOO"}
ReqValues == {"r1", "h1"}
ReqEnvs   == Envs(ReqNames, ReqValues)

\* mergeRestrictedEnv: the allow-listed variables of the host, overridden
\* and extended by extra, as <<name, value>> pairs sorted by name.
mergeRestrictedEnv(host, extra) ==
    LET kept == {k \in DOMAIN host : Allowed(k)}
        base == [k \in kept \cup DOMAIN extra |->
                    IF k \in DOMAIN extra THEN extra[k] ELSE host[k]]
        InBase(k) == k \in DOMAIN base
        keys == SelectSeq(SortedNames, InBase)
    IN  [i \in DOMAIN keys |-> <<keys[i], base[keys[i]]>>]

NoEnvRun == [done |-> FALSE, env |-> <<>>]
NoEnvResult == <<NoEnvRun, NoEnvRun>>

\* Backend.Exec sets cmd.Env: one of two executions, each under its own
\* host environment, with the same req.env.
OffExecSetsEnv ==
    /\ fnArgs.kind = "offenv"
    /\ \E run \in DOMAIN fnRet :
          /\ ~fnRet[run].done
          /\ fnRet' = [fnRet EXCEPT ![run] =
                 [done |-> TRUE,
                  env |-> mergeRestrictedEnv(fnArgs.hosts[run], fnArgs.req)]]
    /\ UNCHANGED <<fnArgs, selVars, sessVars, imgVars, vmVars, lockVars, prepVars>>

(***************************************************************************)
(* The command line: probe and exec, with and without --json               *)
(***************************************************************************)

\* exec.ExitError.ExitCode() of a command ended by a signal, as the kill at
\* the request timeout ends it (off backend, Exec).
SignalExit == -1

\* The exit codes Service.Exec can report for a command that ran.
CmdExitCodes == ExitCodes \cup {SignalExit}

\* What Service.Exec hands to runExec: the error or the command's exit code.
ExecOutcomes ==
    UNION {{[ok |-> r.ok, exitCode |-> IF r.ok THEN c ELSE 0] : c \in CmdExitCodes} :
           r \in {ServiceRun("Exec", p, ProviderAuto, os, d, prepOk, runOk) :
                    p \in ProviderInputs, os \in GoosValues, d \in ProbeRounds,
                    prepOk \in BOOLEAN, runOk \in BOOLEAN}}

\* What Service.Probe hands to runProbe.
ProbeOutcomes ==
    {[ok |-> r.ok, exitCode |-> 0] :
        r \in {ServiceProbeResult(p, os, d, d) :
                 p \in ProviderInputs, os \in GoosValues, d \in ProbeRounds}}

\* The command lines: whether the flags parse, --json, the --project-root
\* of probe ("" when not given), the --env values and --command of exec,
\* what the service call returns and whether the write to stdout succeeds.
CliInputs ==
    {[kind |-> "cli", cmd |-> "probe", parseOk |-> po, json |-> j, root |-> r,
      env |-> "none", command |-> "", svc |-> s, writeOk |-> w] :
        po \in BOOLEAN, j \in BOOLEAN, r \in {"", "exists", "missing"},
        s \in ProbeOutcomes, w \in BOOLEAN}
    \cup
    {[kind |-> "cli", cmd |-> "exec", parseOk |-> po, json |-> j, root |-> "",
      env |-> e, command |-> c, svc |-> s, writeOk |-> w] :
        po \in BOOLEAN, j \in BOOLEAN, e \in {"none", "good", "bad"},
        c \in {"", "true"}, s \in ExecOutcomes, w \in BOOLEAN}

\* The JSON object of a response, by the fields the exit code is tied to.
Response(ok, exitCode) == [ok |-> ok, hasError |-> ~ok, exitCode |-> exitCode]

\* What runProbe / runExec return: the code, whether an error comes with it,
\* and the objects written to stdout.
Returned(code, err, objects) ==
    [stage |-> "returned", code |-> code, err |-> err, objects |-> objects,
     status |-> 0]

\* writeJSON: the object reaches stdout when the write succeeds.
writeJSON(a, resp) == IF a.writeOk THEN <<resp>> ELSE <<>>

\* resp.OK of both commands: err == nil.
RespOKBad(svcOk) == TRUE
RespOK(svcOk) == svcOk

\* runProbe (lines 126-181).
runProbe(a) ==
    IF ~a.parseOk THEN Returned(1, TRUE, <<>>)
    ELSE IF a.root = "missing"
    THEN IF a.json THEN Returned(1, FALSE, writeJSON(a, Response(FALSE, 0)))
         ELSE Returned(1, TRUE, <<>>)
    ELSE IF a.json
    THEN IF ~a.writeOk THEN Returned(1, TRUE, <<>>)
         ELSE Returned(IF a.svc.ok THEN 0 ELSE 1, FALSE,
                       <<Response(RespOK(a.svc.ok), 0)>>)
    ELSE IF ~a.svc.ok THEN Returned(1, TRUE, <<>>)
    ELSE Returned(0, FALSE, <<>>)

\* runExec (lines 210-306).
runExec(a) ==
    IF ~a.parseOk THEN Returned(1, TRUE, <<>>)
    ELSE IF a.env = "bad" \/ a.command = ""
    THEN IF a.json THEN Returned(1, FALSE, writeJSON(a, Response(FALSE, 1)))
         ELSE Returned(1, TRUE, <<>>)
    ELSE IF a.json
    THEN IF ~a.writeOk THEN Returned(1, TRUE, <<>>)
         ELSE IF ~a.svc.ok
         THEN Returned(1, FALSE, <<Response(RespOK(FALSE), 1)>>)
         ELSE Returned(a.svc.exitCode, FALSE,
                       <<Response(RespOK(TRUE), a.svc.exitCode)>>)
    ELSE IF ~a.svc.ok THEN Returned(1, TRUE, <<>>)
    ELSE Returned(a.svc.exitCode, FALSE, <<>>)

\* The exit status the parent of the process sees: the low 8 bits of the
\* code given to os.Exit.
ExitStatus(code) == code % 256

NotRun == [stage |-> "pending", code |-> 0, err |-> FALSE, objects |-> <<>>,
           status |-> 0]

\* runWithIO dispatches to runProbe (line 95).
CliRunsProbe ==
    /\ fnArgs.kind = "cli" /\ fnArgs.cmd = "probe"
    /\ fnRet.stage = "pending"
    /\ fnRet' = runProbe(fnArgs)
    /\ UNCHANGED <<fnArgs, selVars, sessVars, imgVars, vmVars, lockVars, prepVars>>

\* runWithIO dispatches to runExec (line 97).
CliRunsExec ==
    /\ fnArgs.kind = "cli" /\ fnArgs.cmd = "exec"
    /\ fnRet.stage = "pending"
    /\ fnRet' = runExec(fnArgs)
    /\ UNCHANGED <<fnArgs, selVars, sessVars, imgVars, vmVars, lockVars, prepVars>>

\* main (lines 17-26): an error with code 0 becomes 1, then os.Exit.
MainExits ==
    /\ fnArgs.kind = "cli"
    /\ fnRet.stage = "returned"
    /\ LET code == IF fnRet.err /\ fnRet.code = 0 THEN 1 ELSE fnRet.code
       IN  fnRet' = [fnRet EXCEPT !.stage = "exited", !.status = ExitStatus(code)]
    /\ UNCHANGED <<fnArgs, selVars, sessVars, imgVars, vmVars, lockVars, prepVars>>

(***************************************************************************)
(* Progress events: App.prepareImage, its goroutine and its consumer       *)
(***************************************************************************)

\* The capacity of the events channel (64 in prepareImage), scaled down, and
\* the most progress events one EnsurePrepared emits before its last one.
EventsCap == 2
MaxEvents == 4

RECURSIVE Repeat(_, _)
Repeat(e, n) == IF n = 0 THEN <<>> ELSE <<e>> \o Repeat(e, n - 1)

\* The events the goroutine sends, in order: the progress events of
\* EnsurePrepared, then its last event with Done (manager, line 110) when it
\* succeeds, or the failed event of the goroutine (line 240) when it fails.
EventsOf(n, fails) == Repeat("progress", n) \o <<IF fails THEN "failed" ELSE "done">>

ProgressInputs ==
    {[kind |-> "progress", interactive |-> i, fails |-> f, n |-> n] :
        i \in BOOLEAN, f \in BOOLEAN, n \in 0..MaxEvents}

\* prepareImage at its start: the channel is empty and open, the goroutine
\* has everything to send, the consumer runs.
ProgressStart(a) ==
    [todo |-> EventsOf(a.n, a.fails), buf |-> <<>>, closed |-> FALSE,
     prod |-> "emit", ui |-> "running", uiErr |-> "nil", resultCh |-> FALSE,
     ret |-> "pending"]

\* events <- e: a send on a buffered channel goes through when there is room.
CanSend(buf) == Len(buf) < EventsCap

\* The sink of prepareImage (lines 233-235) and the failed event (line 240).
ProducerEmits ==
    /\ fnArgs.kind = "progress"
    /\ fnRet.prod = "emit" /\ fnRet.todo # <<>>
    /\ CanSend(fnRet.buf)
    /\ fnRet' = [fnRet EXCEPT !.buf = Append(@, Head(fnRet.todo)),
                              !.todo = Tail(@)]
    /\ UNCHANGED <<fnArgs, selVars, sessVars, imgVars, vmVars, lockVars, prepVars>>

\* Line 242: close(events)
ProducerCloses ==
    /\ fnArgs.kind = "progress"
    /\ fnRet.prod = "emit" /\ fnRet.todo = <<>>
    /\ fnRet' = [fnRet EXCEPT !.closed = TRUE, !.prod = "result"]
    /\ UNCHANGED <<fnArgs, selVars, sessVars, imgVars, vmVars, lockVars, prepVars>>

\* Lines 243-246: resultCh has room for the one result.
ProducerSendsResult ==
    /\ fnArgs.kind = "progress"
    /\ fnRet.prod = "result"
    /\ fnRet' = [fnRet EXCEPT !.resultCh = TRUE, !.prod = "exit"]
    /\ UNCHANGED <<fnArgs, selVars, sessVars, imgVars, vmVars, lockVars, prepVars>>

\* tui.RunProgress: waitEvent takes one event; an event with Err or Done
\* ends the program, any other one is shown and the next is awaited. The
\* last event the goroutine sends has Err or Done, so the program never
\* waits on the closed channel.
UiReceives ==
    /\ fnArgs.kind = "progress" /\ fnArgs.interactive
    /\ fnRet.ui = "running" /\ fnRet.buf # <<>>
    /\ LET e == Head(fnRet.buf)
       IN  fnRet' = [fnRet EXCEPT !.buf = Tail(@),
                        !.ui = IF e = "progress" THEN "running" ELSE "quit",
                        !.uiErr = IF e = "failed" THEN "failed" ELSE "nil"]
    /\ UNCHANGED <<fnArgs, selVars, sessVars, imgVars, vmVars, lockVars, prepVars>>

\* The user presses q or ctrl+c: the program quits with ErrInterrupted.
UiKeyQuits ==
    /\ fnArgs.kind = "progress" /\ fnArgs.interactive
    /\ fnRet.ui = "running"
    /\ fnRet' = [fnRet EXCEPT !.ui = "quit", !.uiErr = "interrupted"]
    /\ UNCHANGED <<fnArgs, selVars, sessVars, imgVars, vmVars, lockVars, prepVars>>

\* Lines 254-256: the non-interactive loop prints one event.
LoopPrints ==
    /\ fnArgs.kind = "progress" /\ ~fnArgs.interactive
    /\ fnRet.ui = "running" /\ fnRet.buf # <<>>
    /\ fnRet' = [fnRet EXCEPT !.buf = Tail(@)]
    /\ UNCHANGED <<fnArgs, selVars, sessVars, imgVars, vmVars, lockVars, prepVars>>

\* The range loop ends on the closed, drained channel.
LoopEnds ==
    /\ fnArgs.kind = "progress" /\ ~fnArgs.interactive
    /\ fnRet.ui = "running" /\ fnRet.buf = <<>> /\ fnRet.closed
    /\ fnRet' = [fnRet EXCEPT !.ui = "quit"]
    /\ UNCHANGED <<fnArgs, selVars, sessVars, imgVars, vmVars, lockVars, prepVars>>

\* Lines 249-252: RunProgress returned an error, prepareImage returns it at
\* once, without waiting for the goroutine.
PrepareReturnsUiError ==
    /\ fnArgs.kind = "progress"
    /\ fnRet.ui = "quit" /\ fnRet.uiErr # "nil" /\ fnRet.ret = "pending"
    /\ fnRet' = [fnRet EXCEPT !.ret = "error"]
    /\ UNCHANGED <<fnArgs, selVars, sessVars, imgVars, vmVars, lockVars, prepVars>>

\* Lines 259-260: result := <-resultCh
PrepareReturnsResult ==
    /\ fnArgs.kind = "progress"
    /\ fnRet.ui = "quit" /\ fnRet.uiErr = "nil" /\ fnRet.ret = "pending"
    /\ fnRet.resultCh
    /\ fnRet' = [fnRet EXCEPT !.ret = IF fnArgs.fails THEN "error" ELSE "paths",
                              !.resultCh = FALSE]
    /\ UNCHANGED <<fnArgs, selVars, sessVars, imgVars, vmVars, lockVars, prepVars>>

(***************************************************************************)
(* The project config file: config.Validate, Save and Load                 *)
(***************************************************************************)

\* config.Default: the VM settings, the docker image (of an amd64 host) and
\* the one mount.
DefaultCPUs   == 2
DefaultRAMMB  == 2048
DefaultDiskGB == 20
DefaultDockerImage == "debian:13"
DefaultMount  == [host |-> ".", guest |-> "/workspace", mode |-> "rw"]
DefaultMounts == <<DefaultMount>>

\* Validate's lower limit of vm.ram_mb.
MinRAMMB == 256

\* The configs handed to Save.
ConfigMounts ==
    {<<>>, DefaultMounts,
     <<[host |-> "cache", guest |-> "/cache", mode |-> "ro"]>>,
     <<DefaultMount, [host |-> "cache", guest |-> "/cache", mode |-> "ro"]>>,
     <<[host |-> "cache", guest |-> "/cache", mode |-> "rx"]>>,
     <<[host |-> "", guest |-> "/cache", mode |-> "rw"]>>}

Configs ==
    {[provider |-> p, cpus |-> c, ram |-> r, disk |-> d, image |-> i, mounts |-> m] :
        p \in ProviderInputs, c \in {0, 1, DefaultCPUs},
        r \in {0, MinRAMMB, DefaultRAMMB}, d \in {0, DefaultDiskGB},
        i \in {"", DefaultDockerImage, "alpine:3"}, m \in ConfigMounts}

\* Config.Validate (lines 152-183): [ok, cfg]; the receiver's provider is
\* normalized in place.
ValidateConfig(cfg) ==
    LET p == NormalizeProvider(cfg.provider)
        c == [cfg EXCEPT !.provider = p]
    IN  [cfg |-> c,
         ok  |-> /\ ProviderValid(p)
                 /\ p \in {ProviderAuto, ProviderAppleVM} =>
                        c.cpus >= 1 /\ c.ram >= MinRAMMB /\ c.disk >= 1
                 /\ p \in {ProviderAuto, ProviderDocker} => c.image # ""
                 /\ \A k \in DOMAIN c.mounts :
                        /\ c.mounts[k].host # "" /\ c.mounts[k].guest # ""
                        /\ c.mounts[k].mode \in {"ro", "rw"}]

\* yaml.Marshal of a Config: the numbers as decimal digits, the strings and
\* the mounts list as they are.
MarshalConfig(cfg) ==
    [provider |-> cfg.provider,
     cpus |-> Itoa(cfg.cpus), ram_mb |-> Itoa(cfg.ram), disk_gb |-> Itoa(cfg.disk),
     image |-> cfg.image, mounts |-> cfg.mounts]

\* yaml.Unmarshal into a zero Config.
UnmarshalConfig(doc) ==
    [provider |-> doc.provider,
     cpus |-> Atoi(doc.cpus), ram |-> Atoi(doc.ram_mb), disk |-> Atoi(doc.disk_gb),
     image |-> doc.image, mounts |-> doc.mounts]

NoFile == [exists |-> FALSE, doc |-> MarshalConfig(
              [provider |-> "", cpus |-> 0, ram |-> 0, disk |-> 0, image |-> "",
               mounts |-> <<>>])]

\* config.Save (lines 251-263): [ok, file]. Validate runs on Save's own copy
\* of cfg, and that copy is what is marshalled.
SaveConfig(cfg, file) ==
    LET v == ValidateConfig(cfg)
    IN  IF ~v.ok THEN [ok |-> FALSE, file |-> file]
        ELSE [ok |-> TRUE, file |-> [exists |-> TRUE, doc |-> MarshalConfig(v.cfg)]]

\* config.Load (lines 217-249) of an existing file: [ok, cfg].
LoadConfig(file) ==
    LET u == UnmarshalConfig(file.doc)
        d == [u EXCEPT
                !.provider = NormalizeProvider(IF u.provider = "" THEN ProviderAuto
                                               ELSE u.provider),
                !.cpus  = IF u.cpus = 0 THEN DefaultCPUs ELSE u.cpus,
                !.ram   = IF u.ram = 0 THEN DefaultRAMMB ELSE u.ram,
                !.disk  = IF u.disk = 0 THEN DefaultDiskGB ELSE u.disk,
                !.image = IF u.image = "" THEN DefaultDockerImage ELSE u.image,
                !.mounts = IF Len(u.mounts) = 0 THEN DefaultMounts ELSE u.mounts]
        v == ValidateConfig(d)
    IN  [ok |-> v.ok, cfg |-> v.cfg]

ConfigPending ==
    [stage |-> "pending", saved |-> FALSE, file |-> NoFile, loadOk |-> FALSE,
     loaded |-> UnmarshalConfig(NoFile.doc)]

\* Save(path, cfg)
SaveRuns ==
    /\ fnArgs.kind = "config"
    /\ fnRet.stage = "pending"
    /\ LET s == SaveConfig(fnArgs.cfg, fnRet.file)
       IN  fnRet' = [fnRet EXCEPT !.stage = IF s.ok THEN "saved" ELSE "rejected",
                                  !.saved = s.ok, !.file = s.file]
    /\ UNCHANGED <<fnArgs, selVars, sessVars, imgVars, vmVars, lockVars, prepVars>>

\* Load(path) of the file Save wrote.
LoadRuns ==
    /\ fnArgs.kind = "config"
    /\ fnRet.stage = "saved"
    /\ LET l == LoadConfig(fnRet.file)
       IN  fnRet' = [fnRet EXCEPT !.stage = "loaded", !.loadOk = l.ok,
                                  !.loaded = l.cfg]
    /\ UNCHANGED <<fnArgs, selVars, sessVars, imgVars, vmVars, lockVars, prepVars>>

(***************************************************************************)
(* Provider normalization applied to its own result                        *)
(***************************************************************************)

\* Provider strings beyond ProviderInputs: other spellings of the known
\* values and other unknown ones.
ProviderSpellings ==
    ProviderInputs \cup
    {"Auto", "AUTO", "OFF", "Off", "Docker", "Apple-VM", "apple_vm", "applevm",
     "macOS", "MACOS", " off", "off ", "vm", "none", "podman"}

NormalizeFns == {"normalizeProvider", "NormalizeProvider", "toInternalProvider"}

\* One of the three normalizations as [ok, p]: vibebox.normalizeProvider, and
\* config.NormalizeProvider and vibebox.toInternalProvider, which return no
\* error.
NormalizeWith(fn, x) ==
    IF fn = "normalizeProvider" THEN normalizeProvider(x)
    ELSE IF fn = "toInternalProvider" THEN [ok |-> TRUE, p |-> toInternalProvider(x)]
    ELSE [ok |-> TRUE, p |-> NormalizeProvider(x)]

NotNormalized == [fn |-> "", n |-> 0, r1 |-> [ok |-> FALSE, p |-> ""],
                  r2 |-> [ok |-> FALSE, p |-> ""]]

\* The function is applied to the input.
NormalizeOnce ==
    /\ fnArgs.kind = "normalize"
    /\ fnRet.n = 0
    /\ \E fn \in NormalizeFns :
          fnRet' = [fnRet EXCEPT !.fn = fn, !.n = 1,
                                 !.r1 = NormalizeWith(fn, fnArgs.x)]
    /\ UNCHANGED <<fnArgs, selVars, sessVars, imgVars, vmVars, lockVars, prepVars>>

\* The function is applied to its own result, when it returned one.
NormalizeAgain ==
    /\ fnArgs.kind = "normalize"
    /\ fnRet.n = 1 /\ fnRet.r1.ok
    /\ fnRet' = [fnRet EXCEPT !.n = 2, !.r2 = NormalizeWith(fnRet.fn, fnRet.r1.p)]
    /\ UNCHANGED <<fnArgs, selVars, sessVars, imgVars, vmVars, lockVars, prepVars>>

(***************************************************************************)
(* Service.Exec, stage by stage                                            *)
(***************************************************************************)

\* The requests and the environment of one Service.Exec call: the command,
\* whether resolveProjectRuntime succeeds, the provider override, the
\* provider of the project config, one round of probes, and the outcomes
\* of Prepare and of Exec on the selected backend.
ExecCalls ==
    [kind : {"Exec"}, command : {"", "ls"}, resolveOk : BOOLEAN,
     override : ProviderInputs, cfg : ConfigProviders,
     diag : {d \in ProbeRounds : \A n \in BackendNames : d[n].reason # "r2"},
     prepOk : BOOLEAN, runOk : BOOLEAN]

\* A call that has not started: no stage has run, no event was emitted.
ExecNotStarted ==
    [pc |-> "start", stages |-> <<>>, events |-> <<>>, ok |-> FALSE,
     err |-> "nil", selected |-> ""]

\* `if err != nil { return ExecResult{}, err }` after a stage: where the
\* call goes next.
NextStageBad(ok, next) == next
NextStage(ok, next) == IF ok THEN next ELSE "done"

\* The stage that ran and the backend it ran on ("" for the stages before
\* the selection).
Stage(name, be) == [stage |-> name, backend |-> be]

\* Lines 248-255: the command is checked, then resolveProjectRuntime loads
\* the project config and the image lock.
ExecResolves ==
    /\ fnArgs.kind = "Exec" /\ fnRet.pc = "start"
    /\ fnRet' =
          IF fnArgs.command = ""
          THEN [fnRet EXCEPT !.pc = "done", !.err = "command"]
          ELSE [fnRet EXCEPT
                  !.stages = Append(@, Stage("resolve", "")),
                  !.pc = NextStage(fnArgs.resolveOk, "select"),
                  !.err = IF fnArgs.resolveOk THEN "nil" ELSE "resolve"]
    /\ UNCHANGED <<fnArgs, selVars, sessVars, imgVars, vmVars, lockVars, prepVars>>

\* Lines 257-272: the override is normalized and backend.Select chooses
\* the backend.
ExecSelects ==
    /\ fnArgs.kind = "Exec" /\ fnRet.pc = "select"
    /\ LET eff == EffectiveProvider(fnArgs.override, fnArgs.cfg)
           s   == Select(toInternalProvider(eff.p), goos, fnArgs.diag)
       IN  fnRet' =
             IF ~eff.ok
             THEN [fnRet EXCEPT !.pc = "done", !.err = "invalid"]
             ELSE [fnRet EXCEPT
                     !.stages = Append(@, Stage("select", "")),
                     !.pc = NextStage(s.err.kind = "nil", "prepare"),
                     !.err = IF s.err.kind = "nil" THEN "nil" ELSE "select",
                     !.selected = s.sel.backend]
    /\ UNCHANGED <<fnArgs, selVars, sessVars, imgVars, vmVars, lockVars, prepVars>>

\* Lines 287-290: exec.prepare is emitted and selection.Backend.Prepare
\* is called.
ExecPrepares ==
    /\ fnArgs.kind = "Exec" /\ fnRet.pc = "prepare"
    /\ fnRet' = [fnRet EXCEPT
                   !.events = Append(@, "exec.prepare"),
                   !.stages = Append(@, Stage("prepare", fnRet.selected)),
                   !.pc = NextStage(fnArgs.prepOk, "exec"),
                   !.err = IF fnArgs.prepOk THEN "nil" ELSE "prepare"]
    /\ UNCHANGED <<fnArgs, selVars, sessVars, imgVars, vmVars, lockVars, prepVars>>

\* Lines 301-320: exec.running is emitted, selection.Backend.Exec is
\* called, and after a successful Exec exec.completed is emitted.
ExecRuns ==
    /\ fnArgs.kind = "Exec" /\ fnRet.pc = "exec"
    /\ fnRet' = [fnRet EXCEPT
                   !.events = @ \o (IF fnArgs.runOk
                                    THEN <<"exec.running", "exec.completed">>
                                    ELSE <<"exec.running">>),
                   !.stages = Append(@, Stage("exec", fnRet.selected)),
                   !.pc = "done",
                   !.ok = fnArgs.runOk,
                   !.err = IF fnArgs.runOk THEN "nil" ELSE "backend"]
    /\ UNCHANGED <<fnArgs, selVars, sessVars, imgVars, vmVars, lockVars, prepVars>>

(***************************************************************************)
(* ExecInSession: the request merged over the session's defaults           *)
(***************************************************************************)

\* Bound: the ExecInSession calls in one behaviour.
MaxSessionExecs == 2

HandleIds == {"s1", "s2"}

\* The environments of session and request: two names, two values.
SessionEnvs == Envs({"A", "B"}, {"1", "2"})

\* What StartSession stored for a session: the handle's cwd and env (off,
\* apple-vm) or the record's defaultCwd and defaultEnv (a backend without
\* sessions of its own).
SessionDefaults == [cwd : {"/w", "/w/b"}, env : SessionEnvs]

\* The cwd and env of an ExecInSession request; "" is no cwd.
SessionRequests == [cwd : {"", "/w/a"}, env : SessionEnvs]

NoSessionExec == [sid |-> "", req |-> [cwd |-> "", env |-> <<>>],
                  cwd |-> "", env |-> <<>>]

\* effectiveCwd: the request's cwd, or the session's when it has none.
EffectiveCwd(default, requested) ==
    IF requested = "" THEN default ELSE requested

\* effectiveEnv: the pairs of the session's env, then every pair of the
\* request's env assigned over them.
EffectiveEnv(default, requested) ==
    [k \in DOMAIN default \cup DOMAIN requested |->
        IF k \in DOMAIN requested THEN requested[k] ELSE default[k]]

\* cloneMap: the loop assigns into a copy, and the map the session stores
\* keeps the pairs it had.
StoredEnvAfterBad(stored, written) == written
StoredEnvAfter(stored, written) == stored

\* Backend.ExecInSession on a session with the stored defaults s: the request
\* handed to Backend.Exec, and the defaults the session stores afterwards.
ExecInSession(s, req) ==
    LET env == EffectiveEnv(s.env, req.env)
    IN  [cwd |-> EffectiveCwd(s.cwd, req.cwd), env |-> env,
         stored |-> [s EXCEPT !.env = StoredEnvAfter(s.env, env)]]

\* A caller runs a command in one of the sessions.
SessionExec ==
    /\ fnArgs.kind = "sessionexec"
    /\ fnRet.n < MaxSessionExecs
    /\ \E sid \in HandleIds, req \in SessionRequests :
          LET r == ExecInSession(fnRet.stored[sid], req)
          IN  fnRet' = [stored |-> [fnRet.stored EXCEPT ![sid] = r.stored],
                        n |-> fnRet.n + 1,
                        prev |-> fnRet.last,
                        last |-> [sid |-> sid, req |-> req, cwd |-> r.cwd,
                                  env |-> r.env]]
    /\ UNCHANGED <<fnArgs, selVars, sessVars, imgVars, vmVars, lockVars, prepVars>>

(***************************************************************************)
(* Concurrent apple-vm VM lifecycles on one project's instance disk        *)
(***************************************************************************)

\* Bound: the lifecycles each caller goes through.
MaxLifecycles == 2

\* The calls that run a VM lifecycle: Backend.Exec, Backend.ExecInSession
\* (which calls Exec; the two callers share the one session of the
\* project) and Backend.Start.
LifecycleOps == {"Exec", "ExecInSession", "Start"}

NoLifecycle == [op |-> "none", pc |-> "idle", n |-> 0]

\* The VM of caller t has a block device backed by instance_raw.
Attached(t) == fnRet[t].pc \in {"attached", "running"}

\* newVMRuntime (Exec lines 236-239, Start line 163): buildVMConfiguration
\* attaches spec.InstanceRaw read-write and the VM is created, or one of
\* the two fails and the call returns the error.  Nothing is checked or
\* taken before the attachment.
LifecycleBegin(t) ==
    /\ fnArgs.kind = "lifecycles"
    /\ fnRet[t].pc = "idle" /\ fnRet[t].n < MaxLifecycles
    /\ \E op \in LifecycleOps, ok \in BOOLEAN :
          fnRet' = [fnRet EXCEPT ![t] =
                      [op |-> op, pc |-> IF ok THEN "attached" ELSE "idle",
                       n |-> fnRet[t].n + 1]]
    /\ UNCHANGED <<fnArgs, selVars, sessVars, imgVars, vmVars, lockVars, prepVars>>

\* vm.Start (Exec lines 244-246, Start lines 171-173): the VM reaches
\* state running, or the call returns the error and the deferred Close
\* runs.
LifecycleStart(t) ==
    /\ fnArgs.kind = "lifecycles"
    /\ fnRet[t].pc = "attached"
    /\ \E ok \in BOOLEAN :
          fnRet' = [fnRet EXCEPT ![t].pc = IF ok THEN "running" ELSE "idle"]
    /\ UNCHANGED <<fnArgs, selVars, sessVars, imgVars, vmVars, lockVars, prepVars>>

\* The guest powers off at the end of the script or of the shell, or
\* TryStop stops the VM.
LifecycleStops(t) ==
    /\ fnArgs.kind = "lifecycles"
    /\ fnRet[t].pc = "running"
    /\ fnRet' = [fnRet EXCEPT ![t].pc = "stopped"]
    /\ UNCHANGED <<fnArgs, selVars, sessVars, imgVars, vmVars, lockVars, prepVars>>

\* The call returns and the deferred vm.Close runs.
LifecycleReturn(t) ==
    /\ fnArgs.kind = "lifecycles"
    /\ fnRet[t].pc = "stopped"
    /\ fnRet' = [fnRet EXCEPT ![t].pc = "idle"]
    /\ UNCHANGED <<fnArgs, selVars, sessVars, imgVars, vmVars, lockVars, prepVars>>

(***************************************************************************)
(* Initial states and specifications                                       *)
(***************************************************************************)

SelInit == selCall = NoCall

SessInit ==
    /\ sessions = [i \in {} |-> NewSession(ProviderOff)]
    /\ mu = [writer |-> NoCaller, readers |-> {}]
    /\ thr = [t \in Callers |-> Idle]
    /\ hist = [execsStopped |-> [i \in SessionIds |-> FALSE],
               stopSeen |-> [i \in SessionIds |-> FALSE],
               backendStops |-> [i \in SessionIds |-> 0],
               stopReturned |-> [i \in SessionIds |-> FALSE]]

\* An empty cache, no lock file, no project config.
ImgFiles ==
    /\ artifact = Absent /\ raw = NoRaw /\ lock = NoLock
    /\ projCfg = "absent" /\ imgCall = NoImgCall

ImgIdle == ImgFiles /\ imgEnv = [served |-> <<>>, digest |-> ZeroDigest]

\* No pure function applied, no process in updateLock, no instance disk.
\* No function has been applied, no process has touched the lock file.
NoArgs == [kind |-> "none"]
FnIdle == fnArgs = NoArgs /\ fnRet = NotParsed
LockIdle ==
    /\ lockFile = [exists |-> FALSE, content |-> <<>>, written |-> {}]
    /\ procs = [p \in Procs |-> IdleProc]
PrepIdle ==
    disk = [base |-> FALSE, script |-> FALSE, instance |-> NoInstance,
            scriptRuns |-> 0, calls |-> 0, last |-> NoPrepare]
RestIdle == FnIdle /\ LockIdle /\ PrepIdle

\* No VM call in progress.
VmIdle == vm = NewVM /\ call = NoVmCall /\ clock = 0

\* backend.Select and the service calls built on it.
InitSelect == goos \in GoosValues /\ SelInit /\ SessInit /\ ImgIdle /\ VmIdle /\ RestIdle

NextSelect ==
    \/ CallSelect
    \/ CallProbe
    \/ CallExec
    \/ CallStart
    \/ CallStartSession
    \/ CallReturn

SpecSelect == InitSelect /\ [][NextSelect]_vars

\* The session registry under concurrent callers.
InitSession == goos = "darwin" /\ SelInit /\ SessInit /\ ImgIdle /\ VmIdle /\ RestIdle

NextSession ==
  \E t \in Callers :
    \/ StartSessionBegin(t)
    \/ StartSessionBackend(t)
    \/ StartSessionLock(t)
    \/ StartSessionRegister(t)
    \/ ExecInSessionBegin(t)
    \/ ExecInSessionRLock(t)
    \/ ExecInSessionLookup(t)
    \/ ExecInSessionCheck(t)
    \/ ExecInSessionDispatch(t)
    \/ ExecInSessionReturn(t)
    \/ StopSessionBegin(t)
    \/ StopSessionLock(t)
    \/ StopSessionFlip(t)
    \/ StopSessionBackend(t)
    \/ StopSessionReturn(t)
    \/ GetSessionBegin(t)
    \/ GetSessionRLock(t)
    \/ GetSessionLookup(t)
    \/ GetSessionClone(t)
    \/ Return(t)

SpecSession == InitSession /\ [][NextSession]_vars


(***************************************************************************)
(* Properties of backend selection                                         *)
(***************************************************************************)

\* The provider a selection-level call was made with.
RequestedProvider ==
    IF selCall.op \in {"Select", "Probe"} THEN selCall.requested
    ELSE IF selCall.requested # "" THEN selCall.requested
    ELSE selCall.cfg

\* C1: a call that names off, apple-vm or docker either selects exactly that
\* provider and backend, with WasFallback false, or returns an error; it
\* never selects another backend.
C1_ExplicitProviderNeverDowngraded ==
    \A p \in {ProviderOff, ProviderAppleVM, ProviderDocker} :
        (selCall.op # "none" /\ RequestedProvider = p) =>
            \/ ~selCall.ok /\ selCall.err.kind # "nil" /\ selCall.selected = ""
            \/ /\ selCall.ok
               /\ selCall.selected = p
               /\ selCall.backend = p
               /\ ~selCall.wasFallback

\* apple-vm was named, its probe failed while docker's succeeded, and Exec
\* returned the unavailable error.
C1_Witness ==
    /\ selCall.op = "Exec"
    /\ selCall.requested = ProviderAppleVM
    /\ selCall.err.kind = "unavailable"
    /\ ~selCall.d1["apple-vm"].available
    /\ selCall.d1["docker"].available
    /\ ~selCall.ok

\* The calls that run Select with provider auto.
AutoRequested ==
    \/ selCall.op = "Select" /\ selCall.requested = ProviderAuto
    \/ selCall.op = "Probe" /\ selCall.requested \in {"", ProviderAuto}

\* C2: with provider auto, apple-vm is selected (no fallback) on darwin when
\* its probe is available; otherwise docker when its probe is available,
\* with WasFallback true exactly on darwin and FallbackFrom apple-vm;
\* otherwise the error carries the apple-vm and the docker reason. off is
\* never selected.
C2_AutoDecisionTable ==
    AutoRequested =>
        LET d     == selCall.d1
            apple == goos = "darwin" /\ d["apple-vm"].available
        IN  /\ selCall.backend # "off" /\ selCall.selected # ProviderOff
            /\ apple =>
                 /\ selCall.ok
                 /\ selCall.selected = ProviderAppleVM
                 /\ selCall.backend = "apple-vm"
                 /\ ~selCall.wasFallback
            /\ (~apple /\ d["docker"].available) =>
                 /\ selCall.ok
                 /\ selCall.selected = ProviderDocker
                 /\ selCall.backend = "docker"
                 /\ selCall.wasFallback <=> goos = "darwin"
                 /\ selCall.fallbackFrom = "apple-vm"
            /\ (~apple /\ ~d["docker"].available) =>
                 /\ ~selCall.ok
                 /\ selCall.err.kind = "auto-failed"
                 /\ selCall.err.appleReason = d["apple-vm"].reason
                 /\ selCall.err.dockerReason = d["docker"].reason

\* auto on darwin, apple-vm unavailable, docker available, off available:
\* docker was selected as a fallback from apple-vm.
C2_Witness ==
    /\ selCall.op = "Probe"
    /\ selCall.requested = ProviderAuto
    /\ goos = "darwin"
    /\ selCall.ok
    /\ ~selCall.d1["apple-vm"].available
    /\ selCall.d1["off"].available
    /\ selCall.selected = ProviderDocker
    /\ selCall.wasFallback
    /\ selCall.fallbackFrom = "apple-vm"

(***************************************************************************)
(* Properties of the session registry                                      *)
(***************************************************************************)

C3_Inv ==
    /\ \A i \in Registered :
          /\ sessions[i].state \in {SessionStateActive, SessionStateStopped}
          /\ sessions[i].state = SessionStateActive <=> ~hist.stopSeen[i]
    /\ \A t \in Callers :
          /\ (thr[t].op = "StartSession" /\ thr[t].pc = "done"
                 /\ thr[t].ret = "session") => thr[t].sid \in Registered
          /\ (thr[t].op = "GetSession" /\ thr[t].pc = "done"
                 /\ thr[t].regAtStart) =>
                /\ thr[t].ret = "session"
                /\ thr[t].afterStop => thr[t].seen = SessionStateStopped
                /\ thr[t].seen = SessionStateActive => ~thr[t].stoppedAtStart

C3_Step ==
    \A i \in Registered :
        /\ i \in DOMAIN sessions'
        /\ sessions[i].state = SessionStateStopped
              => sessions'[i].state = SessionStateStopped

C4_Inv ==
    \A t \in Callers :
        (thr[t].op = "ExecInSession" /\ thr[t].afterStop) =>
            /\ thr[t].pc \notin {"e_dispatch", "e_running"}
            /\ thr[t].pc = "done" => thr[t].ret = "session is not active"

C4_Step ==
    \A t \in Callers :
        (thr[t].op = "ExecInSession" /\ thr[t].afterStop /\ thr'[t] # thr[t]) =>
            sessions' = sessions /\ hist' = hist

C5_Inv ==
    /\ \A i \in SessionIds : hist.backendStops[i] <= 1
    /\ \A t \in Callers :
          (thr[t].op = "StopSession" /\ thr[t].stoppedAtStart) =>
              /\ thr[t].pc \notin {"s_backend", "s_return"}
              /\ thr[t].pc = "done" => thr[t].ret = "nil"

C5_Step ==
    \A t \in Callers :
        (thr[t].op = "StopSession" /\ thr[t].stoppedAtStart /\ thr'[t] # thr[t]) =>
            /\ sessions' = sessions
            /\ hist'.backendStops = hist.backendStops
            /\ hist'.execsStopped = hist.execsStopped

\* C5: however many StopSession calls are made on a session, one after
\* another or concurrently, the backend's StopSession runs at most once; a
\* call that begins when the state is already stopped returns nil and
\* changes nothing.
C5_StopSessionIdempotent == []C5_Inv /\ [][C5_Step]_vars

\* A second StopSession began on a stopped session whose backend had been
\* stopped once, and returned nil.
C5_Witness ==
    \E t \in Callers :
        /\ thr[t].op = "StopSession" /\ thr[t].stoppedAtStart
        /\ thr[t].pc = "done" /\ thr[t].ret = "nil"
        /\ hist.backendStops[thr[t].sid] = 1


(***************************************************************************)
(* Properties of the artifact store                                        *)
(***************************************************************************)

PrepareCalls == {"EnsurePrepared", "Initialize"}

TheKey == LockKey(DescID, DescVersion)

\* C6: whenever EnsurePrepared returns success, the artifact file exists and
\* its sha256 equals the descriptor's sha256 compared without regard to the
\* case of the hex digits, base.raw exists, and the lock has an entry under
\* id@version that records exactly the artifact path and the raw path.
C6_EnsurePreparedSuccess ==
    (imgCall.op \in PrepareCalls /\ imgCall.prepErr = "nil") =>
        /\ artifact.exists
        /\ EqualFold(computeSHA256(artifact.data), imgEnv.digest)
        /\ raw.exists
        /\ TheKey \in DOMAIN lock
        /\ lock[TheKey].artifact = ArtifactPath
        /\ lock[TheKey].raw = RawPath

\* EnsurePrepared succeeded on a non-empty artifact whose digest the catalog
\* states in upper case, and it extracted base.raw.
C6_Witness ==
    /\ imgCall.op = "EnsurePrepared" /\ imgCall.prepErr = "nil"
    /\ artifact.exists /\ Len(artifact.data) > 0
    /\ imgEnv.digest # computeSHA256(artifact.data)
    /\ imgCall.extracted /\ raw.exists /\ TheKey \in DOMAIN lock

\* C7: when the downloaded bytes do not hash to the descriptor's sha256, the
\* artifact file is deleted and the call fails; EnsurePrepared extracts
\* nothing and leaves the lock without a new or changed entry, and
\* Initialize writes no project config.
C7_MismatchDeletesAndFails ==
    (imgCall.op # "none" /\ imgCall.dlErr = "mismatch") =>
        /\ ~artifact.exists
        /\ imgCall.err # "nil"
        /\ ~imgCall.extracted /\ raw = imgCall.preRaw
        /\ ~imgCall.lockUpdated /\ lock = imgCall.preLock
        /\ ~imgCall.cfgWritten /\ projCfg = imgCall.preCfg

\* Initialize met a mismatch on bytes it had written over an artifact that
\* an earlier run had verified and locked.
C7_Witness ==
    /\ imgCall.op = "Initialize" /\ imgCall.dlErr = "mismatch"
    /\ imgCall.pre.exists /\ Len(imgCall.pre.data) > 0
    /\ imgCall.complete
    /\ TheKey \in DOMAIN lock /\ raw.exists /\ ~artifact.exists

\* The artifacts the descriptor's digest names.
CorrectArtifacts ==
    {c \in Contents : EqualFold(computeSHA256(c), imgEnv.digest)}

IsProperPrefix(p, c) ==
    Len(p) < Len(c) /\ p = SubSeq(c, 1, Len(p))

\* A re-run that was not interrupted, on a file holding a proper prefix of
\* the correct artifact c, against an origin that serves c and answers 200
\* or 206.
ResumeCase(c) ==
    /\ imgCall.op # "none"
    /\ imgCall.pre.exists /\ IsProperPrefix(imgCall.pre.data, c)
    /\ imgCall.servedCorrect
    /\ imgCall.status \in {StatusOK, StatusPartialContent}
    /\ imgCall.complete

\* The end result of a converged resume: success and a byte-identical file;
\* after 206 the file is the old bytes followed by the body, after 200 it
\* is the body written from byte 0.
ResumeResult(c) ==
    /\ imgCall.dlErr = "nil"
    /\ artifact = File(c)
    /\ imgCall.status = StatusPartialContent =>
          /\ imgCall.hdr = RangeFrom(Len(imgCall.pre.data))
          /\ artifact.data = imgCall.pre.data
                               \o SubSeq(c, Len(imgCall.pre.data) + 1, Len(c))

\* C8 as stated: on every proper prefix, the empty file included, one re-run
\* requests Range: bytes=<current size>- and ends with the correct artifact.
C8_Original ==
    \A c \in CorrectArtifacts :
        ResumeCase(c) =>
            /\ imgCall.hdr = RangeFrom(Len(imgCall.pre.data))
            /\ ResumeResult(c)

\* C8: if the artifact file holds a non-empty proper prefix of the correct
\* artifact, one re-run of DownloadAndVerify requests
\* Range: bytes=<current size>-, appends the 206 body or, on 200, rewrites
\* the file from byte 0, and ends with a file byte-identical to the correct
\* artifact that passes verification. On an empty file the re-run sends no
\* Range header and ends with the same result.
C8_ResumeConverges ==
    \A c \in CorrectArtifacts :
        ResumeCase(c) =>
            /\ Len(imgCall.pre.data) > 0 =>
                  imgCall.hdr = RangeFrom(Len(imgCall.pre.data))
            /\ Len(imgCall.pre.data) = 0 => imgCall.hdr = NoRange
            /\ ResumeResult(c)

\* A resume from a one-byte prefix that the origin answered with 206.
C8_Witness ==
    /\ imgCall.op = "DownloadAndVerify"
    /\ imgCall.pre.exists /\ Len(imgCall.pre.data) > 0
    /\ imgCall.status = StatusPartialContent
    /\ imgCall.complete /\ imgCall.servedCorrect
    /\ imgCall.dlErr = "nil"
    /\ artifact.exists /\ Len(artifact.data) > Len(imgCall.pre.data)

(***************************************************************************)
(* Properties of the apple-vm lifecycle                                    *)
(***************************************************************************)

\* The phases of Exec and Start that wait: for the VM to run, for the login
\* prompt, for the shell prompt after login, after mount and after cd, for
\* the exit marker, and the interactive session.
WaitPhases == {"boot", "login", "postlogin", "mount", "cd", "marker", "interactive"}

\* No phase was entered twice.
NoRetry(trace) ==
    \A i, j \in 1..Len(trace) : trace[i] = trace[j] => i = j

\* The call has returned because a phase timed out or the context was done
\* while the VM was started.
EndedByTimeoutOrCancel ==
    /\ call.pc = "done" /\ call.started
    /\ call.failedPhase \in WaitPhases
    /\ call.cause \in {"timeout", "deadline", "canceled"}

\* C9: in apple-vm Exec and interactive Start, once the VM has been started,
\* a timeout of any phase or a cancellation of the context during any phase
\* makes the call return an error without retrying the phase, and a VM stop
\* has been attempted before the call returns.
C9_TimeoutOrCancelStopsVM ==
    EndedByTimeoutOrCancel =>
        /\ call.err # "nil"
        /\ NoRetry(call.trace)
        /\ call.stopAttempted

\* Exec returned the boot wait's timeout with the VM started and no stop
\* attempted.
C9_Witness ==
    /\ call.op = "Exec" /\ EndedByTimeoutOrCancel
    /\ call.failedPhase = "boot" /\ call.cause = "timeout"
    /\ ~call.stopAttempted /\ vm.state # "stopped"

\* C10: a request timeout bounds only the command phase of an apple-vm Exec:
\* the exec is aborted by the request timeout only while it waits for the
\* exit marker of the command, and no sooner than the request timeout after
\* the command was sent.
C10_RequestTimeoutBoundsCommandOnly ==
    (call.op = "Exec" /\ call.timeout > 0 /\ call.cause = "deadline") =>
        /\ call.failedPhase = "marker"
        /\ \A s \in call.cmdSent, f \in call.failedAt : f >= s + call.timeout

\* Exec was aborted by the request timeout while it waited for the VM to
\* reach state running, before the boot deadline.
C10_Witness ==
    /\ call.op = "Exec" /\ call.timeout > 0 /\ call.pc = "done"
    /\ call.cause = "deadline" /\ call.failedPhase = "boot"
    /\ call.cmdSent = NoTime
    /\ \A f \in call.failedAt : f < bootTimeout

\* The artifact store: the origin serves some artifact, the catalog states a
\* digest for it.
InitImage ==
    /\ goos = "darwin" /\ SelInit /\ SessInit /\ VmIdle /\ RestIdle
    /\ ImgFiles
    /\ \E d \in Contents, g \in UNION {DigestsFor(c) : c \in Contents} :
          /\ g \in DigestsFor(d)
          /\ imgEnv = [served |-> d, digest |-> g]

NextImage ==
    \/ CallDownloadAndVerify
    \/ CallEnsurePrepared
    \/ CallInitialize
    \/ ServerReplace

SpecImage == InitImage /\ [][NextImage]_vars

\* One VM lifecycle: an Exec or an interactive Start on the apple-vm
\* backend, with the guest, the clock and the caller as its environment.
InitVM ==
    /\ goos = "darwin" /\ SelInit /\ SessInit /\ ImgIdle /\ RestIdle
    /\ VmIdle

NextVM ==
    \/ ExecBegin
    \/ StartBegin
    \/ VmStart
    \/ WaitForStateCheck
    \/ WaitForStateSelect
    \/ WaitForMatchCheck
    \/ WaitForMatchSelect
    \/ TryStop
    \/ ParseOutput
    \/ WaitInBackground
    \/ StdinEnds
    \/ InteractiveSelect
    \/ VmBoots
    \/ GuestPrints
    \/ GuestPowerOff
    \/ TimePasses
    \/ Cancel

SpecVM == InitVM /\ [][NextVM]_vars

(***************************************************************************)
(* Properties of the console framing                                       *)
(***************************************************************************)

Parsed == fnArgs.kind \in {"framed", "raw"} /\ fnRet # NotParsed

\* The positions of the console output where the exit marker is followed
\* by a digit.
ExitOccurrences(out) ==
    {i \in 1..(Len(out) - 1) : out[i] = exitCodeMarker /\ IsDigit(out[i + 1])}

\* The integer written after the last of them.
LastExitCode(out) ==
    LET last == CHOOSE i \in ExitOccurrences(out) :
                    \A j \in ExitOccurrences(out) : j <= i
    IN  Atoi(DigitRun(out, last + 1))

HasMarker(text) == \E i \in DOMAIN text : text[i] \in Markers

\* C11: whenever the console output holds the exit marker followed by
\* digits at least once, Exec succeeds and returns the integer of the last
\* such occurrence; for the framed stream of a command that exits with rc
\* this integer is rc, whatever the command printed, for rc from 0 to 255.
C11_LastExitMarkerWins ==
    (Parsed /\ ExitOccurrences(fnArgs.console) # {}) =>
        /\ fnRet.err = "nil"
        /\ fnRet.exitCode = LastExitCode(fnArgs.console)
        /\ fnArgs.kind = "framed" => fnRet.exitCode = fnArgs.rc

\* A command printed an exit-marker line with code 7 and then exited with
\* 255; Exec returned 255.
C11_Witness ==
    /\ Parsed /\ fnArgs.kind = "framed"
    /\ fnArgs.stdout = <<exitCodeMarker, "7">>
    /\ fnArgs.rc = 255
    /\ fnRet.exitCode = 255

\* What the parsing returns for a text the command printed, the newline the
\* script prints after it left aside.
Recovered(text, got) == got = text \/ got = text \o <<NL>>

\* C12: for every command whose stdout or stderr holds one of the marker
\* strings, Exec on the framed stream returns the command's stdout, its
\* stderr and its exit code.
C12_MarkersInOutputRecovered ==
    (Parsed /\ fnArgs.kind = "framed"
       /\ (HasMarker(fnArgs.stdout) \/ HasMarker(fnArgs.stderr))) =>
        /\ fnRet.err = "nil"
        /\ Recovered(fnArgs.stdout, fnRet.stdout)
        /\ Recovered(fnArgs.stderr, fnRet.stderr)
        /\ fnRet.exitCode = fnArgs.rc

\* A command printed the stdout end marker and Exec returned an empty
\* stdout.
C12_Witness ==
    /\ Parsed /\ fnArgs.kind = "framed"
    /\ fnArgs.stdout = <<stdoutEndMarker, NL>>
    /\ fnArgs.stderr = <<>>
    /\ fnRet.err = "nil"
    /\ fnRet.stdout = <<>>

\* C13: for every command whose stdout and stderr hold no marker string,
\* Exec on the framed stream returns exactly the command's stdout, exactly
\* its stderr and its exit code.
C13_FramingRoundTrip ==
    (Parsed /\ fnArgs.kind = "framed"
       /\ ~HasMarker(fnArgs.stdout) /\ ~HasMarker(fnArgs.stderr)) =>
        /\ fnRet.err = "nil"
        /\ fnRet.stdout = fnArgs.stdout
        /\ fnRet.stderr = fnArgs.stderr
        /\ fnRet.exitCode = fnArgs.rc

\* A command printed "a" on stdout and nothing on stderr; Exec returned
\* "a" followed by a newline, and a newline as stderr.
C13_Witness ==
    /\ Parsed /\ fnArgs.kind = "framed"
    /\ fnArgs.stdout = <<"a">> /\ fnArgs.stderr = <<>>
    /\ fnRet.stdout = <<"a", NL>>
    /\ fnRet.stderr = <<NL>>
    /\ fnRet.exitCode = fnArgs.rc

\* The parsing of console output: a framed run or a console of any shape,
\* and the result Backend.Exec makes of it.
InitFrame ==
    /\ goos = "darwin" /\ SelInit /\ SessInit /\ ImgIdle /\ VmIdle
    /\ LockIdle /\ PrepIdle
    /\ fnArgs \in FramedRuns \cup RawConsoles
    /\ fnRet = NotParsed

NextFrame == ExecParsesOutput

SpecFrame == InitFrame /\ [][NextFrame]_vars

(***************************************************************************)
(* Properties of the image lock file                                       *)
(***************************************************************************)

\* C14: a process that loads the lock file while another process is in
\* the middle of saving it reads a completely written content, never an
\* empty or partly written file.
C14_SaveAtomicForReaders ==
    \A p \in Procs :
        (procs[p].obs.made /\ procs[p].obs.during) =>
            \/ ~procs[p].obs.seen.exists
            \/ IsComplete(procs[p].obs.seen.content)

\* A process read an empty file while another was saving over a lock that
\* had entries.
C14_Witness ==
    \E p \in Procs :
        /\ procs[p].obs.made /\ procs[p].obs.during
        /\ procs[p].obs.seen = [exists |-> TRUE, content |-> <<>>]
        /\ lockFile.written # {}

Quiescent == \A p \in Procs : procs[p].pc = "idle"

\* C15: when no update is under way, every entry that a finished save
\* wrote is in the lock file.
C15_EntriesNeverLost ==
    Quiescent =>
        /\ LoadImageLock(lockFile).err = "nil"
        /\ lockFile.written \subseteq LoadImageLock(lockFile).images

\* Two processes prepared the two images; the file holds one entry.
C15_Witness ==
    /\ Quiescent
    /\ lockFile.written = KeySet
    /\ LoadImageLock(lockFile).err = "nil"
    /\ Cardinality(LoadImageLock(lockFile).images) = 1

\* C16: every entry of the image lock names an artifact and a base.raw
\* that exist on disk.
C16_LockEntriesExistOnDisk ==
    \A k \in DOMAIN lock : artifact.exists /\ raw.exists

\* A run ended in a digest mismatch over an artifact that an earlier run
\* had locked: the entry is there and the artifact is not.
C16_Witness ==
    /\ imgCall.op = "EnsurePrepared" /\ imgCall.dlErr = "mismatch"
    /\ TheKey \in DOMAIN imgCall.preLock
    /\ TheKey \in DOMAIN lock /\ ~artifact.exists

\* The lock file under concurrent updates and reads.
InitLock ==
    /\ goos = "darwin" /\ SelInit /\ SessInit /\ ImgIdle /\ VmIdle
    /\ FnIdle /\ PrepIdle
    /\ LockIdle

NextLock == ReadLock \/ UpdateLockLoads \/ SaveOpens \/ SaveWrites

SpecLock == InitLock /\ [][NextLock]_vars

(***************************************************************************)
(* Properties of apple-vm Prepare                                          *)
(***************************************************************************)

\* C17: a Prepare call that finds base_raw and instance_raw returns
\* success, copies nothing, does not call the provisioning and leaves
\* instance_raw as it was; and over any sequence of Prepare calls the
\* provisioning script has completed at most once on the instance disk
\* that exists.
C17_PrepareKeepsExistingInstance ==
    /\ (disk.last.op = "Prepare" /\ disk.last.preBase /\ disk.last.pre.exists) =>
          /\ disk.last.err = "nil"
          /\ ~disk.last.copied /\ ~disk.last.ranScript
          /\ disk.last.post = disk.last.pre
    /\ disk.scriptRuns <= 1

\* A later Prepare found the provisioned disk and returned success.
C17_Witness ==
    /\ disk.last.op = "Prepare" /\ disk.last.preBase
    /\ disk.last.pre = Instance("provisioned")
    /\ disk.last.err = "nil"
    /\ disk.instance = Instance("provisioned")
    /\ disk.scriptRuns = 1
    /\ disk.calls >= 2

\* apple-vm Prepare called again and again on one project, whose
\* configuration names a provisioning script or none.
InitPrepare ==
    /\ goos = "darwin" /\ SelInit /\ SessInit /\ ImgIdle /\ VmIdle
    /\ FnIdle /\ LockIdle
    /\ \E script \in BOOLEAN : disk = [base |-> FALSE, script |-> script,
            instance |-> NoInstance, scriptRuns |-> 0, calls |-> 0,
            last |-> NoPrepare]

NextPrepare == CallPrepare \/ BaseExtracted \/ InstanceDeleted

SpecPrepare == InitPrepare /\ [][NextPrepare]_vars

(***************************************************************************)
(* Properties of the apple-vm working directory                            *)
(***************************************************************************)

CwdResolved == fnArgs.kind = "vmcwd" /\ fnRet # NoCwdResult

\* The mounts whose host path is the project root.
RootMounts ==
    {i \in DOMAIN fnArgs.mounts :
        MountHostPath(fnArgs.root, fnArgs.mounts[i]) = Clean(fnArgs.root)}
FirstRootMount == CHOOSE i \in RootMounts : \A j \in RootMounts : i <= j

\* The cleaned host path of the requested cwd below the project root.
HostCwd == Clean(Path(TRUE, fnArgs.root.segs \o fnArgs.cwd.segs))

IsPrefixOf(s, t) == Len(s) <= Len(t) /\ s = SubSeq(t, 1, Len(s))

\* Whether that path is the project root or below it, and its elements
\* below the root.
InsideRoot == IsPrefixOf(fnArgs.root.segs, HostCwd.segs)
BelowRoot == SubSeq(HostCwd.segs, Len(fnArgs.root.segs) + 1, Len(HostCwd.segs))

\* C18: a request with a relative cwd fails without a VM when no mount has
\* the project root as its host path; with such a mount its guest cwd is
\* the mount's guest path followed by the cleaned cwd, and a cwd that
\* leaves the project root is rejected; an absolute cwd is returned as it
\* is and the empty cwd gives the workspace guest path.
C18_RelativeCwdNeedsRootMount ==
    CwdResolved =>
        IF IsEmpty(fnArgs.cwd)
        THEN /\ fnRet.err = "nil"
             /\ fnRet.cwd = IF RootMounts # {}
                            THEN fnArgs.mounts[FirstRootMount].guest
                            ELSE IF fnArgs.mounts # <<>>
                            THEN fnArgs.mounts[1].guest
                            ELSE Path(TRUE, <<"workspace">>)
        ELSE IF fnArgs.cwd.abs
        THEN fnRet.err = "nil" /\ fnRet.cwd = fnArgs.cwd
        ELSE IF RootMounts = {}
        THEN fnRet.err # "nil" /\ ~fnRet.vmCreated
        ELSE IF ~InsideRoot
        THEN fnRet.err # "nil" /\ ~fnRet.vmCreated
        ELSE /\ fnRet.err = "nil"
             /\ fnRet.cwd = Path(TRUE, fnArgs.mounts[FirstRootMount].guest.segs
                                         \o BelowRoot)

\* Exec with the cwd a/../.. and a mount of the project root was rejected
\* before a VM was created.
C18_Witness ==
    /\ CwdResolved /\ fnRet.op = "Exec"
    /\ fnArgs.cwd = Path(FALSE, <<"a", "..", "..">>)
    /\ RootMounts # {}
    /\ fnRet.err = "escapes" /\ ~fnRet.vmCreated

\* apple-vm requests with every cwd and every list of mounts.
InitCwd ==
    /\ goos = "darwin" /\ SelInit /\ SessInit /\ ImgIdle /\ VmIdle
    /\ LockIdle /\ PrepIdle
    /\ fnArgs \in {[kind |-> "vmcwd", root |-> ProjectRoot, mounts |-> ms, cwd |-> c] :
                      ms \in MountLists, c \in Cwds}
    /\ fnRet = NoCwdResult

NextCwd == VmExecResolvesCwd \/ VmStartSessionResolvesCwd

SpecCwd == InitCwd /\ [][NextCwd]_vars

(***************************************************************************)
(* Properties of the off backend                                           *)
(***************************************************************************)

OffResolved == fnArgs.kind = "offcwd" /\ fnRet.op # "none"

\* The cleaned host path a cwd names: itself when absolute, below the
\* project root when relative.
CleanedHostPath(c) ==
    Clean(IF c.abs THEN c ELSE Path(TRUE, fnArgs.root.segs \o c.segs))

\* A cwd whose cleaned path is neither the project root nor below it.
OutsideRoot(c) ==
    ~IsEmpty(c) /\ ~IsPrefixOf(fnArgs.root.segs, CleanedHostPath(c).segs)

\* C19: for every cwd whose cleaned path is outside the project root,
\* Exec, StartSession and ExecInSession of the off backend return an error
\* and start no process; a process that is started runs in the project
\* root or below it.
C19_OffCwdStaysInProjectRoot ==
    OffResolved =>
        /\ OutsideRoot(fnRet.reqCwd) => (fnRet.err # "nil" /\ ~fnRet.started)
        /\ fnRet.started =>
              fnRet.dir.abs /\ IsPrefixOf(fnArgs.root.segs, fnRet.dir.segs)

\* In a session started in the project root, a request with the absolute
\* cwd /q was refused.
C19_Witness ==
    /\ OffResolved /\ fnRet.op = "ExecInSession"
    /\ fnRet.reqCwd = Path(TRUE, <<"q">>)
    /\ fnRet.err = "escapes" /\ ~fnRet.started

\* Requests to the off backend with every cwd.
InitOffCwd ==
    /\ goos = "linux" /\ SelInit /\ SessInit /\ ImgIdle /\ VmIdle
    /\ LockIdle /\ PrepIdle
    /\ fnArgs \in {[kind |-> "offcwd", root |-> ProjectRoot, cwd |-> c, stat |-> st] :
                      c \in Cwds, st \in StatResults}
    /\ fnRet = NoOffResult

NextOffCwd == OffExec \/ OffStartSession \/ OffExecInSession

SpecOffCwd == InitOffCwd /\ [][NextOffCwd]_vars

EnvRunsDone == fnArgs.kind = "offenv" /\ \A run \in DOMAIN fnRet : fnRet[run].done

\* The variables of a child environment.
EnvNames(env) == {env[i][1] : i \in DOMAIN env}
EnvValue(env, k) == {env[i][2] : i \in {j \in DOMAIN env : env[j][1] = k}}

\* C20: two executions of the off backend whose host environments differ
\* only outside the allow-list, with the same req.env, give the command
\* identical environments; every variable of the child environment is
\* allow-listed or named in req.env; a name in req.env has the req.env
\* value, and an allow-listed host variable not in req.env has the host's.
C20_OffEnvDependsOnAllowListOnly ==
    EnvRunsDone =>
        /\ fnRet[1].env = fnRet[2].env
        /\ \A run \in DOMAIN fnRet :
              /\ EnvNames(fnRet[run].env) \subseteq allow \cup DOMAIN fnArgs.req
              /\ \A k \in DOMAIN fnArgs.req :
                    EnvValue(fnRet[run].env, k) = {fnArgs.req[k]}
              /\ \A k \in (DOMAIN fnArgs.hosts[run] \cap allow) \ DOMAIN fnArgs.req :
                    EnvValue(fnRet[run].env, k) = {fnArgs.hosts[run][k]}

\* Two hosts differ in SECRET, both set PATH, req.env overrides PATH and
\* adds FOO: both commands got FOO and the request's PATH, and no SECRET.
C20_Witness ==
    /\ EnvRunsDone
    /\ "SECRET" \in DOMAIN fnArgs.hosts[1] /\ "SECRET" \notin DOMAIN fnArgs.hosts[2]
    /\ "PATH" \in DOMAIN fnArgs.hosts[1]
    /\ fnArgs.req = [k \in {"PATH", "FOO"} |-> "r1"]
    /\ fnRet[1].env = <<<<"FOO", "r1">>, <<"PATH", "r1">>>>
    /\ fnRet[2].env = fnRet[1].env

\* Host environments that agree on the allow-listed variables.
SameAllowed(h1, h2) ==
    /\ DOMAIN h1 \cap allow = DOMAIN h2 \cap allow
    /\ \A k \in DOMAIN h1 \cap allow : h1[k] = h2[k]

\* Two executions under such host environments with one req.env.
InitOffEnv ==
    /\ goos = "linux" /\ SelInit /\ SessInit /\ ImgIdle /\ VmIdle
    /\ LockIdle /\ PrepIdle
    /\ fnArgs \in {[kind |-> "offenv", hosts |-> hs, req |-> r] :
                      hs \in {p \in HostEnvs \X HostEnvs : SameAllowed(p[1], p[2])},
                      r \in ReqEnvs}
    /\ fnRet = NoEnvResult

NextOffEnv == OffExecSetsEnv

SpecOffEnv == InitOffEnv /\ [][NextOffEnv]_vars

(***************************************************************************)
(* Session registry: the lock and the backend operations                   *)
(***************************************************************************)

\* The positions at which a call is inside a backend operation: Probe,
\* Prepare and StartSession of StartSession, the command of ExecInSession,
\* StopSession of the session backend.
BackendPcs == {"ss_backend", "e_running", "s_backend"}
InBackendOp(t) == thr[t].pc \in BackendPcs

HoldsLock(t) == mu.writer = t \/ t \in mu.readers

\* C21 as stated: in every state in which some call is inside a backend
\* operation the registry lock is free, held by no call at all.
C21_LockFreeDuringBackendOps ==
    (\E t \in Callers : InBackendOp(t)) => CanLock

\* C21: a call inside a backend operation holds the registry lock neither
\* for writing nor for reading, so whoever holds the lock is at one of the
\* short registry steps and a call waiting for the lock is never waiting for
\* a backend operation to end.
C21_BackendOpsRunUnlocked ==
    /\ \A t \in Callers : InBackendOp(t) => ~HoldsLock(t)
    /\ \A t \in Callers :
         HoldsLock(t) =>
             thr[t].pc \in {"ss_register", "s_flip", "e_lookup", "g_lookup"}

\* One call is running a command in the backend while another one, a
\* StartSession or a StopSession, holds the lock.
C21_Witness ==
    \E t, u \in Callers :
        /\ thr[t].pc = "e_running"
        /\ u # t
        /\ HoldsLock(u)
        /\ thr[u].op \in {"StartSession", "StopSession"}

\* C27: a backend command for a session begins only while the session's
\* state is active; after StopSession set the state to stopped no ExecInSession
\* hands a command for that session to the backend.
C27_NoBackendCommandOnStoppedSession ==
    \A i \in SessionIds : ~hist.execsStopped[i]

\* An ExecInSession that passed its state check while the session was active
\* is running its command in the backend of a session that a StopSession has
\* stopped in between.
C27_Witness ==
    \E t \in Callers :
        /\ thr[t].op = "ExecInSession"
        /\ thr[t].pc = "e_running"
        /\ ~thr[t].stoppedAtStart
        /\ hist.execsStopped[thr[t].sid]
        /\ sessions[thr[t].sid].state = SessionStateStopped

(***************************************************************************)
(* Service results returned with an error                                  *)
(***************************************************************************)

\* The call failed at backend selection or later: the provider was accepted.
FailedAfterSelection ==
    /\ selCall.op \in {"Exec", "Start", "Probe"}
    /\ ~selCall.ok
    /\ selCall.err.kind # "invalid"

\* C22: when Service.Exec, Service.Probe or Service.Start fails after backend
\* selection has run (selection error, Prepare error, backend Exec or Start
\* error), the result returned with the error carries a diagnostics map with
\* the probe result of each backend.
C22_FailuresCarryDiagnostics ==
    FailedAfterSelection => DOMAIN selCall.diagnostics = BackendNames

\* Service.Exec failed in Prepare, after a selection that had probed every
\* backend, and returned a result without diagnostics.
C22_Witness ==
    /\ selCall.op = "Exec"
    /\ ~selCall.ok
    /\ selCall.err.kind = "prepare"
    /\ DOMAIN selCall.d1 = BackendNames
    /\ selCall.diagnostics = NoDiag

(***************************************************************************)
(* Properties of the command line in JSON mode                             *)
(***************************************************************************)

InitCli ==
    /\ goos = "linux" /\ SelInit /\ SessInit /\ ImgIdle /\ VmIdle
    /\ LockIdle /\ PrepIdle
    /\ fnArgs \in CliInputs
    /\ fnRet = NotRun

NextCli ==
    \/ CliRunsProbe
    \/ CliRunsExec
    \/ MainExits

SpecCli == InitCli /\ [][NextCli]_vars

\* A process that ran in JSON mode with flags that parse has exited.
JsonExited == fnRet.stage = "exited" /\ fnArgs.json /\ fnArgs.parseOk

Emitted == Len(fnRet.objects) > 0

\* exec reached Service.Exec: the --env values and --command were accepted.
ExecAccepted == fnArgs.env # "bad" /\ fnArgs.command # ""

\* probe --json: exit status 0 exactly when the emitted object has ok=true.
ProbeAgrees ==
    (fnArgs.cmd = "probe" /\ Emitted) =>
        (fnRet.status = 0 <=> fnRet.objects[1].ok)

\* exec --json: ok=true exactly when Service.Exec returned no error; every
\* rejected request and every failure gives ok=false, an error field and a
\* non-zero exit status.
ExecOkAgrees ==
    (fnArgs.cmd = "exec" /\ Emitted) =>
        /\ fnRet.objects[1].ok <=> (ExecAccepted /\ fnArgs.svc.ok)
        /\ ~fnRet.objects[1].ok =>
              fnRet.objects[1].hasError /\ fnRet.status # 0

ExecSucceeded ==
    fnArgs.cmd = "exec" /\ Emitted /\ fnRet.objects[1].ok

InitProgress ==
    /\ goos = "linux" /\ SelInit /\ SessInit /\ ImgIdle /\ VmIdle
    /\ LockIdle /\ PrepIdle
    /\ fnArgs \in ProgressInputs
    /\ fnRet = ProgressStart(fnArgs)

NextProgress ==
    \/ ProducerEmits
    \/ ProducerCloses
    \/ ProducerSendsResult
    \/ UiReceives
    \/ UiKeyQuits
    \/ LoopPrints
    \/ LoopEnds
    \/ PrepareReturnsUiError
    \/ PrepareReturnsResult

SpecProgress == InitProgress /\ [][NextProgress]_vars

\* The goroutine has an event to emit.
EmitPending == fnRet.prod = "emit" /\ fnRet.todo # <<>>

\* C24: emitting a progress event never blocks the producing operation:
\* whenever EnsurePrepared has an event to emit the send goes through, be
\* the consumer slow or gone.
C24_EmitNeverBlocks ==
    EmitPending => CanSend(fnRet.buf)

\* The progress UI quit on a key press and prepareImage returned; the
\* goroutine has an event to emit, the channel is full and nothing will
\* receive from it again.
C24_Witness ==
    /\ EmitPending
    /\ ~CanSend(fnRet.buf)
    /\ fnRet.ui = "quit" /\ fnRet.uiErr = "interrupted"
    /\ fnRet.ret = "error"

(***************************************************************************)
(* Properties of the project config file                                   *)
(***************************************************************************)

InitConfig ==
    /\ goos = "linux" /\ SelInit /\ SessInit /\ ImgIdle /\ VmIdle
    /\ LockIdle /\ PrepIdle
    /\ fnArgs \in {[kind |-> "config", cfg |-> c] : c \in Configs}
    /\ fnRet = ConfigPending

NextConfig ==
    \/ SaveRuns
    \/ LoadRuns

SpecConfig == InitConfig /\ [][NextConfig]_vars

\* cfg with its provider in canonical form.
Canonical(cfg) == [cfg EXCEPT !.provider = NormalizeProvider(cfg.provider)]

\* C25: for every config that Save accepts, Load of the saved file succeeds
\* and returns a config equal to it in every field (VM settings, docker
\* image, the mounts list, an empty list included) but for the provider,
\* which is canonical; no file written by Save has provider macos.
C25_SaveLoadRoundTrip ==
    /\ fnRet.saved => fnRet.file.doc.provider # ProviderMacOS
    /\ fnRet.stage = "loaded" =>
          /\ fnRet.loadOk
          /\ fnRet.loaded = Canonical(fnArgs.cfg)

\* Save accepted a config with an empty mounts list and Load of the file
\* returned the default mount in its place.
C25_Witness ==
    /\ fnRet.stage = "loaded" /\ fnRet.loadOk
    /\ fnArgs.cfg.mounts = <<>>
    /\ fnRet.file.doc.mounts = <<>>
    /\ fnRet.loaded.mounts = DefaultMounts
    /\ fnRet.loaded # Canonical(fnArgs.cfg)

(***************************************************************************)
(* Properties of provider normalization                                    *)
(***************************************************************************)

InitNormalize ==
    /\ goos = "linux" /\ SelInit /\ SessInit /\ ImgIdle /\ VmIdle
    /\ LockIdle /\ PrepIdle
    /\ fnArgs \in {[kind |-> "normalize", x |-> x] : x \in ProviderSpellings}
    /\ fnRet = NotNormalized

NextNormalize ==
    \/ NormalizeOnce
    \/ NormalizeAgain

SpecNormalize == InitNormalize /\ [][NextNormalize]_vars

\* C26: provider normalization is idempotent: for every input x that it
\* accepts, normalize(normalize(x)) = normalize(x); macos maps to apple-vm,
\* the empty value maps to auto, normalizeProvider rejects every value outside
\* {empty, off, auto, apple-vm, macos, docker}, and no result is macos.
C26_NormalizeIdempotent ==
    /\ fnRet.n = 2 => fnRet.r2 = fnRet.r1
    /\ fnRet.n >= 1 =>
          /\ fnArgs.x = ProviderMacOS => fnRet.r1 = [ok |-> TRUE, p |-> ProviderAppleVM]
          /\ fnRet.r1.ok => fnRet.r1.p # ProviderMacOS
          /\ (fnRet.fn # "NormalizeProvider" /\ fnArgs.x = "") =>
                fnRet.r1 = [ok |-> TRUE, p |-> ProviderAuto]
          /\ fnRet.fn = "normalizeProvider" =>
                (fnRet.r1.ok <=>
                      fnArgs.x \in {"", ProviderOff, ProviderAuto, ProviderAppleVM,
                                    ProviderMacOS, ProviderDocker})

\* normalizeProvider was applied to macos and again to its result apple-vm.
C26_Witness ==
    /\ fnRet.n = 2
    /\ fnRet.fn = "normalizeProvider"
    /\ fnArgs.x = ProviderMacOS
    /\ fnRet.r2.p = ProviderAppleVM

(***************************************************************************)
(* Properties of the console dialogue of the apple-vm backend              *)
(***************************************************************************)

Sent(line) == \E i \in 1..Len(vm.sent) : vm.sent[i] = line

\* C28: each wait for a shell prompt of the boot sequence is satisfied only
\* by output the guest produced after the line before it was sent: the exec
\* script (or cd, in Start) is sent only after the guest printed a prompt
\* that follows the mount command, never on a prompt already in the buffer.
C28_PromptWaitsNeedNewPrompt ==
    call.staleWaits \cap {"postlogin", "mount"} = {}

\* The guest showed a shell prompt without a login; the mount command was
\* sent, the guest printed nothing more, and the exec script was sent.
C28_Witness ==
    /\ call.op = "Exec"
    /\ "login" \notin vm.out
    /\ vm.sent = <<"mount", "script">>
    /\ "mount" \in call.staleWaits
    /\ vm.out = {"prompt"}

\* C29: the wait for the exit marker of Exec ends only when the guest has
\* printed the exit-code line of the finished command; the echo of the
\* script cannot end it, so the stop wait and the forced stop do not begin
\* while the command is still running within its timeout.
C29_MarkerWaitEndsOnExitLine ==
    (call.op = "Exec" /\ call.phase = "stopwait") => "exitline" \in vm.out

\* The marker wait of an Exec without a request timeout ended on the echo of
\* the script; the stop wait timed out and TryStop ran while the command had
\* not printed its exit-code line.
C29_Witness ==
    /\ call.op = "Exec" /\ call.phase = "stopwait"
    /\ call.timeout = 0
    /\ call.stopAttempted
    /\ "echo" \in vm.out
    /\ "exitline" \notin vm.out

IsPrefix(a, b) == Len(a) <= Len(b) /\ SubSeq(b, 1, Len(a)) = a

\* The phases whose wait has returned nil, by the phases entered after them.
Entered(phase) == \E i \in 1..Len(call.trace) : call.trace[i] = phase

C30_Inv ==
    call.op = "Exec" =>
        /\ \/ IsPrefix(vm.sent, <<"root", "mount", "script">>)
           \/ IsPrefix(vm.sent, <<"mount", "script">>)
        /\ Sent("root") => "login" \in vm.out
        /\ Len(vm.sent) > 0 => Entered("login")
        /\ Sent("script") => Entered("marker")

C30_Step ==
    (call.op = "Exec" /\ vm'.sent # vm.sent) =>
        /\ Len(vm'.sent) = Len(vm.sent) + 1
        /\ call.pc = "wait_check"
        /\ LET line == vm'.sent[Len(vm'.sent)]
           IN  /\ line \in {"root", "mount", "script"}
               /\ line = "root" <=> (call.phase = "login" /\ "login" \in vm.out)
               /\ line = "mount" =>
                     \/ call.phase = "postlogin"
                     \/ call.phase = "login" /\ "login" \notin vm.out
               /\ line = "script" => call.phase = "mount"

\* C30: in every apple-vm Exec the lines written to the guest console are, in
\* this order: root, sent exactly when the needle matched by the first wait
\* was the login prompt; the mount command, once; the exec script, once and
\* only after Bootstrap returned nil. None is sent before the VM was seen
\* running and none after the exec script.
C30_SendOrder == []C30_Inv /\ [][C30_Step]_vars

\* An Exec that logged in, mounted and ran its script has returned.
C30_Witness ==
    /\ call.op = "Exec" /\ call.pc = "done"
    /\ vm.sent = <<"root", "mount", "script">>
    /\ call.err = "nil"

(***************************************************************************)
(* Properties of a failed apple-vm Prepare                                 *)
(***************************************************************************)

\* The instance disk is a complete copy of base_raw on which the
\* configured provisioning, if any, succeeded.
CompleteInstance(inst) ==
    inst = Instance(IF disk.script THEN "provisioned" ELSE "base")

\* C31: a Prepare call that returns an error leaves no instance_raw, and
\* an instance_raw that a Prepare call finds and accepts as ready is a
\* complete copy of base_raw whose provisioning, if configured, succeeded.
C31_FailedPrepareLeavesNoInstance ==
    /\ (disk.last.op = "Prepare" /\ disk.last.err # "nil") =>
          ~disk.last.post.exists
    /\ (disk.last.op = "Prepare" /\ disk.last.err = "nil"
            /\ disk.last.pre.exists) => CompleteInstance(disk.last.pre)

\* A copy failed after os.Create, and the next Prepare accepted the
\* partial disk as ready.
C31_Witness ==
    /\ disk.last.op = "Prepare" /\ disk.last.err = "nil"
    /\ disk.last.pre = Instance("partial")
    /\ disk.instance = Instance("partial")
    /\ ~disk.last.copied /\ ~disk.last.ranScript

\* provisionInstance returned an error.
ProvisionFailed(outcome) == outcome \in {"fails", "ok-then-exec-error"}

\* C32: when the provisioning fails during Prepare, instance_raw is
\* gone afterwards and Prepare returns an error; the next Prepare call
\* finds no instance_raw, and unless MkdirAll or copyFile fails it copies
\* base_raw again and calls the provisioning again.
C32_FailedProvisioningRemovesInstance ==
    /\ (disk.last.op = "Prepare" /\ ProvisionFailed(disk.last.prov)) =>
          /\ disk.last.err = "provision-instance-disk"
          /\ disk.last.post = NoInstance
          /\ disk.instance = NoInstance
    /\ (disk.last.op = "Prepare" /\ ProvisionFailed(disk.last.prevProv)) =>
          /\ disk.last.pre = NoInstance
          /\ disk.last.err \in {"mkdir", "create-instance-disk"}
                \/ (disk.last.copied /\ disk.last.ranScript)

\* A provisioning failed, and the next Prepare copied base_raw again and
\* completed the provisioning.
C32_Witness ==
    /\ disk.last.op = "Prepare" /\ ProvisionFailed(disk.last.prevProv)
    /\ disk.last.pre = NoInstance
    /\ disk.last.copied /\ disk.last.ranScript /\ disk.last.prov = "ok"
    /\ disk.instance = Instance("provisioned")
    /\ disk.scriptRuns = 1

(***************************************************************************)
(* Properties of a repeated EnsurePrepared                                 *)
(***************************************************************************)

\* The last call was an EnsurePrepared that found the artifact completely
\* downloaded with the descriptor's digest, and whose request, with the
\* Range offset at the end of that file, was answered with 416.
RerunAnswered416 ==
    /\ imgCall.op = "EnsurePrepared"
    /\ imgCall.pre.exists /\ Len(imgCall.pre.data) > 0
    /\ DigestMatches(computeSHA256(imgCall.pre.data), imgEnv.digest)
    /\ imgCall.hdr = RangeFrom(Len(imgCall.pre.data))
    /\ imgCall.status = StatusRangeNotSatisfiable

\* C33: a re-run of EnsurePrepared over a completely downloaded and
\* verified artifact, answered with 416 Range Not Satisfiable, succeeds
\* and leaves the artifact, the raw image and the lock entry as they were.
C33_RerunAfterCompleteDownloadSucceeds ==
    RerunAnswered416 =>
        /\ imgCall.err = "nil"
        /\ artifact = imgCall.pre
        /\ raw = imgCall.preRaw
        /\ lock = imgCall.preLock

\* The first run prepared everything; the re-run was answered with 416
\* and returned the download error, the files untouched.
C33_Witness ==
    /\ RerunAnswered416
    /\ imgCall.preRaw.exists
    /\ LockKey(DescID, DescVersion) \in DOMAIN imgCall.preLock
    /\ imgCall.err = "status"
    /\ ~imgCall.extracted /\ ~imgCall.lockUpdated
    /\ artifact = imgCall.pre /\ raw = imgCall.preRaw /\ lock = imgCall.preLock

(***************************************************************************)
(* Properties of the stages of Service.Exec                                *)
(***************************************************************************)

InitExec ==
    /\ goos \in {"linux", "darwin"} /\ SelInit /\ SessInit /\ ImgIdle /\ VmIdle
    /\ LockIdle /\ PrepIdle
    /\ fnArgs \in ExecCalls
    /\ fnRet = ExecNotStarted

NextExec == ExecResolves \/ ExecSelects \/ ExecPrepares \/ ExecRuns

SpecExec == InitExec /\ [][NextExec]_vars

ExecStageOrder == <<"resolve", "select", "prepare", "exec">>
ExecEventOrder == <<"exec.prepare", "exec.running", "exec.completed">>

\* The names of the stages that ran, in the order they ran.
StagesRun == [i \in 1..Len(fnRet.stages) |-> fnRet.stages[i].stage]

\* C34: the stages of Service.Exec run in the order resolve, select,
\* Prepare, Exec, the last two on the selected backend; a stage that fails
\* ends the call with an error and no later stage runs; the events are
\* emitted in the order exec.prepare, exec.running, exec.completed, and
\* exec.completed is emitted exactly when the call succeeds.
C34_ExecStagesInOrder ==
    /\ IsPrefix(StagesRun, ExecStageOrder)
    /\ IsPrefix(fnRet.events, ExecEventOrder)
    /\ \A i \in 1..Len(fnRet.stages) :
          fnRet.stages[i].stage \in {"prepare", "exec"} =>
              /\ fnRet.stages[i].backend = fnRet.selected
              /\ fnRet.selected \in BackendNames
    /\ fnRet.err # "nil" => fnRet.pc = "done" /\ ~fnRet.ok
    /\ fnRet.pc = "done" => (fnRet.ok <=> fnRet.err = "nil")
    /\ (fnRet.pc = "done" /\ fnRet.ok) =>
          StagesRun = ExecStageOrder /\ fnRet.events = ExecEventOrder
    /\ (\E i \in 1..Len(fnRet.events) : fnRet.events[i] = "exec.completed")
          <=> fnRet.ok
    /\ fnRet.err = "resolve" => StagesRun = <<"resolve">>
    /\ fnRet.err = "select" => StagesRun = <<"resolve", "select">>
    /\ fnRet.err = "prepare" =>
          /\ StagesRun = <<"resolve", "select", "prepare">>
          /\ fnRet.events = <<"exec.prepare">>
    /\ fnRet.err = "backend" =>
          /\ StagesRun = ExecStageOrder
          /\ fnRet.events = <<"exec.prepare", "exec.running">>
    /\ fnRet.pc = "done" =>
          LET r == ServiceRun("Exec", fnArgs.override, fnArgs.cfg, goos,
                              fnArgs.diag, fnArgs.prepOk, fnArgs.runOk)
          IN  (fnArgs.command # "" /\ fnArgs.resolveOk) =>
                  /\ r.ok = fnRet.ok
                  /\ Len(r.events) = Len(fnRet.events)

\* A call whose Prepare failed on the selected backend has ended: Exec did
\* not run on it and only exec.prepare was emitted.
C34_Witness ==
    /\ fnArgs.kind = "Exec" /\ fnRet.pc = "done"
    /\ fnRet.err = "prepare" /\ fnRet.selected = "docker"
    /\ fnRet.stages[3] = Stage("prepare", "docker")
    /\ Len(fnRet.stages) = 3
    /\ fnRet.events = <<"exec.prepare">>

(***************************************************************************)
(* Properties of the results built from a Selection                        *)
(***************************************************************************)

\* C36: the diagnostics of a successful Service.Probe result have an entry
\* for each of off, apple-vm and docker, and the entry of the selected
\* provider reports available = true, whatever the backends answer to the
\* second invocation of their probes.
C36_ProbeResultSelfConsistent ==
    (selCall.op = "Probe" /\ selCall.ok) =>
        /\ DOMAIN selCall.diagnostics = BackendNames
        /\ selCall.selected \in BackendNames
        /\ selCall.diagnostics[selCall.selected].available

\* Select chose a backend that its probe reported available, and the probe
\* Service.Probe ran afterwards for the diagnostics found it unavailable.
C36_Witness ==
    /\ selCall.op = "Probe" /\ selCall.ok
    /\ selCall.selected = "docker"
    /\ selCall.d1["docker"].available
    /\ ~selCall.diagnostics["docker"].available

\* C38: in every Selection returned by Select and in every Probe or Start
\* result built from it, FallbackFrom is non-empty exactly when WasFallback
\* is true.
C38_FallbackFromOnlyWithFallback ==
    (selCall.op \in {"Select", "Probe", "Start"} /\ selCall.ok) =>
        (selCall.fallbackFrom # "" <=> selCall.wasFallback)

\* Off darwin, auto selected docker: not a fallback, and the selection
\* names apple-vm as the fallback source; Service.Probe copied both.
C38_Witness ==
    /\ goos = "linux"
    /\ selCall.op = "Probe" /\ selCall.ok
    /\ selCall.requested = ProviderAuto
    /\ selCall.selected = "docker"
    /\ ~selCall.wasFallback
    /\ selCall.fallbackFrom = "apple-vm"

(***************************************************************************)
(* Properties of the interactive phase of apple-vm Start                   *)
(***************************************************************************)

\* Start has returned from its select loop.
InteractiveReturned ==
    call.op = "Start" /\ call.pc = "done" /\ call.phase = "interactive"

\* The `exit` lines sent to the guest.
ExitsSent == Cardinality({i \in 1..Len(vm.sent) : vm.sent[i] = "exit"})

\* C35: in the interactive phase of Start the end of the host's stdin
\* sends exactly one `exit` line; after it Start returns only when the VM
\* is stopped or the context is done; and when Start returns because of a
\* cancellation or of a stdin copy error, a VM stop has been attempted.
C35_InteractiveStartEnds ==
    /\ (call.op = "Start" /\ call.phase = "interactive") =>
          /\ ExitsSent <= 1
          /\ call.copyErr = "off" <=> ExitsSent = 1
    /\ (InteractiveReturned /\ call.copyErr = "off") =>
          vm.state = "stopped" \/ CtxDone(call)
    /\ (InteractiveReturned /\ call.cause \in {"canceled", "deadline", "stdin"}) =>
          call.stopAttempted

\* The host's stdin ended and `exit` was sent; the context was cancelled,
\* the select took the background wait's ctx.Err() and Start returned it
\* with the VM running and no stop attempted.
C35_Witness ==
    /\ InteractiveReturned
    /\ call.copyErr = "off" /\ ExitsSent = 1
    /\ call.cause = "canceled" /\ call.err = "canceled"
    /\ ~call.stopAttempted
    /\ vm.state = "running"

(***************************************************************************)
(* Properties of ExecInSession's cwd and env                               *)
(***************************************************************************)

\* Two sessions, started with different cwds and any env, with the
\* defaults their StartSession stored, and no command run yet.
InitSessionExec ==
    /\ goos = "linux" /\ SelInit /\ SessInit /\ ImgIdle /\ VmIdle
    /\ LockIdle /\ PrepIdle
    /\ fnArgs \in [kind : {"sessionexec"},
                   start : {f \in [HandleIds -> SessionDefaults] :
                               f["s1"].cwd = "/w" /\ f["s2"].cwd = "/w/b"}]
    /\ fnRet = [stored |-> fnArgs.start, n |-> 0, prev |-> NoSessionExec,
                last |-> NoSessionExec]

NextSessionExec == SessionExec

SpecSessionExec == InitSessionExec /\ [][NextSessionExec]_vars

\* The command of call c ran with the cwd and env that the request and
\* the defaults stored at StartSession give.
RanWithStartDefaults(c) ==
    c.sid # "" =>
        LET d == fnArgs.start[c.sid]
        IN  /\ c.cwd = (IF c.req.cwd # "" THEN c.req.cwd ELSE d.cwd)
            /\ DOMAIN c.env = DOMAIN d.env \cup DOMAIN c.req.env
            /\ \A k \in DOMAIN c.req.env : c.env[k] = c.req.env[k]
            /\ \A k \in DOMAIN d.env \ DOMAIN c.req.env : c.env[k] = d.env[k]

\* C37: every ExecInSession runs its command with the request's cwd, or
\* the session's default when the request has none, and with the session's
\* default env overridden key by key by the request's env; the defaults a
\* session stores stay what StartSession stored, so a call's cwd and env
\* do not depend on the calls before it.
C37_ExecInSessionLeavesDefaults ==
    /\ fnRet.stored = fnArgs.start
    /\ RanWithStartDefaults(fnRet.last)
    /\ RanWithStartDefaults(fnRet.prev)

\* A call on s1 overrode A and the cwd; the next call on s1, with no cwd
\* and no env of its own, ran with the defaults of s1.
C37_Witness ==
    /\ fnRet.prev.sid = "s1" /\ fnRet.last.sid = "s1"
    /\ fnArgs.start["s1"].cwd = "/w"
    /\ "A" \in DOMAIN fnArgs.start["s1"].env
    /\ fnArgs.start["s1"].env["A"] = "1"
    /\ fnRet.prev.req.cwd = "/w/a"
    /\ "A" \in DOMAIN fnRet.prev.req.env /\ fnRet.prev.req.env["A"] = "2"
    /\ fnRet.prev.env["A"] = "2" /\ fnRet.prev.cwd = "/w/a"
    /\ fnRet.last.req.cwd = "" /\ DOMAIN fnRet.last.req.env = {}
    /\ fnRet.last.cwd = "/w"
    /\ fnRet.last.env = fnArgs.start["s1"].env

(***************************************************************************)
(* Properties of concurrent VM lifecycles                                  *)
(***************************************************************************)

\* Two callers of the apple-vm backend on one project.
InitLifecycles ==
    /\ goos = "darwin" /\ SelInit /\ SessInit /\ ImgIdle /\ VmIdle
    /\ LockIdle /\ PrepIdle
    /\ fnArgs = [kind |-> "lifecycles"]
    /\ fnRet = [t \in Callers |-> NoLifecycle]

NextLifecycles ==
    \E t \in Callers :
        \/ LifecycleBegin(t)
        \/ LifecycleStart(t)
        \/ LifecycleStops(t)
        \/ LifecycleReturn(t)

SpecLifecycles == InitLifecycles /\ [][NextLifecycles]_vars

\* C39: at any time at most one VM lifecycle has the project's
\* instance_raw attached, and no two VMs backed by it are running at
\* once, under every interleaving of concurrent Exec, ExecInSession and
\* Start calls.
C39_OneLifecyclePerInstance ==
    /\ Cardinality({t \in Callers : Attached(t)}) <= 1
    /\ Cardinality({t \in Callers : fnRet[t].pc = "running"}) <= 1

\* Two ExecInSession calls on the project's session each have a running
\* VM backed by instance_raw.
C39_Witness ==
    \A t \in Callers :
        fnRet[t].op = "ExecInSession" /\ fnRet[t].pc = "running"

====
